---- MODULE Spec2Model ----
(***************************************************************************)
(* A model of ampelmann's check pipeline: the scheduler (scheduler.py),    *)
(* the batch command `run` (cli.py), the runner (runner.py), the retry     *)
(* wrapper (retry.py) with the two HTTP clients that use it (llm.py,       *)
(* notify.py) and the SQLite store (db.py).                                *)
(*                                                                         *)
(* Time is counted in ticks of five minutes.  croniter is a library: it is *)
(* modelled by its contract on the minute field of a 5-field expression    *)
(* (the other four fields are "*" in every schedule used here).            *)
(***************************************************************************)
EXTENDS Integers, Sequences, FiniteSets, TLC

VARIABLES
    now,          \* the wall clock read by datetime.now()
    checks,       \* the list load_checks returns (the check definitions)
    check_runs,   \* table check_runs of the store, in insertion order
    check_state,  \* table check_state of the store: check_name -> row or None
    exec_log,     \* the commands run_command has executed, in order
    batch,        \* the position of the `run` command and its local variables
    sched,        \* a direct call of is_check_due / get_due_checks
    retry,        \* a call of retry_on_error and its local variables
    llm,          \* a call of the classifier (llm.py) and its local variables
    notify,       \* a call of send_alert (notify.py) and its local variables
    db,           \* a call of a method of Database (db.py) and its result
    runner        \* a direct call of a function of runner.py and its result

vars == <<now, checks, check_runs, check_state, exec_log, batch, sched, retry, llm, notify, db, runner>>

----------------------------------------------------------------------------
(* Bounds of the model. *)

\* the latest time a direct scheduler call is made at
MaxTime == 13
\* the clock of the batch model stops advancing here
MaxClock == 4
\* the longest list of checks a direct scheduler call is given
MaxChecks == 2
\* the number of `run` invocations in one behaviour
MaxInvocations == 2
\* the largest max_attempts a direct retry_on_error call is given
MaxAttempts == 3
\* the largest initial delay a direct retry_on_error call is given
MaxDelay == 2
\* the largest backoff factor a direct retry_on_error call is given
MaxBackoff == 3

----------------------------------------------------------------------------
(* Python's None and optional values. *)

None == <<>>
Some(x) == <<x>>
IsNone(o) == o = <<>>
Get(o) == o[1]

Times == 0..MaxTime

\* the value of a call: what it returned, or the exception it raised
Return(v) == [kind |-> "return", value |-> v, exc |-> "none"]
Raise(e, v) == [kind |-> "raise", value |-> v, exc |-> e]

----------------------------------------------------------------------------
(* models.py: Check.  The fields are those the dataclass declares. *)

\* the names of the check files, in the order load_checks sorts them
NameSeq == <<"backup", "cert", "disk", "raid">>
Schedules == {"*/10 * * * *", "0 * * * *", "15,20 * * * *", "not-a-cron"}

Check(name, enabled, schedule) ==
    [name |-> name, command |-> "cmd", schedule |-> schedule,
     description |-> "", enabled |-> enabled, timeout |-> 30, sudo |-> FALSE,
     llm |-> [prompt |-> "p", model |-> None, timeout |-> None,
              history_context |-> None, triage_model |-> None,
              analysis_model |-> None, skip_analysis |-> FALSE],
     notify |-> [priority |-> "default", tags |-> <<>>],
     source_path |-> None]

\* getattr on a Check: only declared fields exist
HasAttr(check, attr) == attr \in DOMAIN check

----------------------------------------------------------------------------
(* croniter, by its contract. *)

\* croniter(expr) raises CroniterBadCronError when expr does not parse
croniter_valid(schedule) ==
    schedule \in {"*/10 * * * *", "0 * * * *", "15,20 * * * *", "*/5 * * * *"}

\* the values of the minute field
CronMinutes(schedule) ==
    CASE schedule = "*/10 * * * *" -> {0, 10, 20, 30, 40, 50}
      [] schedule = "0 * * * *" -> {0}
      [] schedule = "15,20 * * * *" -> {15, 20}
      [] schedule = "*/5 * * * *" -> {5 * m : m \in 0..11}
      [] OTHER -> {}

\* the minute of the hour of tick t
MinuteOf(t) == (t % 12) * 5

\* whether t is an instant of the schedule
Matches(schedule, t) == MinuteOf(t) \in CronMinutes(schedule)

\* croniter(expr, base).get_next(): the first instant strictly after base
get_next(schedule, base) ==
    CHOOSE t \in (base + 1)..(base + 12) :
        /\ Matches(schedule, t)
        /\ \A u \in (base + 1)..(t - 1) : ~Matches(schedule, u)

----------------------------------------------------------------------------
(* scheduler.py *)

\* the instant of the schedule at or before t (the slot a run at t belongs to)
PrevSlot(schedule, t) ==
    CHOOSE s \in (t - 11)..t :
        /\ Matches(schedule, s)
        /\ \A u \in (s + 1)..t : ~Matches(schedule, u)

is_check_due_nonstrict(check, last_run, t) ==
    IF ~check.enabled THEN Return(FALSE)
    ELSE IF IsNone(last_run)
    THEN IF croniter_valid(check.schedule)
         THEN Return(TRUE)
         ELSE Raise("ValueError", FALSE)
    ELSE IF ~croniter_valid(check.schedule) THEN Raise("ValueError", FALSE)
    ELSE Return(t > get_next(check.schedule, Get(last_run)))

is_check_due_novalidate(check, last_run, t) ==
    IF ~check.enabled THEN Return(FALSE)
    ELSE IF IsNone(last_run) THEN Return(TRUE)
    ELSE IF ~croniter_valid(check.schedule) THEN Raise("ValueError", FALSE)
    ELSE Return(t >= get_next(check.schedule, Get(last_run)))

is_check_due_anchored(check, last_run, t) ==
    IF ~check.enabled THEN Return(FALSE)
    ELSE IF IsNone(last_run)
    THEN IF croniter_valid(check.schedule)
         THEN Return(TRUE)
         ELSE Raise("ValueError", FALSE)
    ELSE IF ~croniter_valid(check.schedule) THEN Raise("ValueError", FALSE)
    ELSE LET L == Get(last_run)
             s == PrevSlot(check.schedule, L)
         IN  Return(t >= L + (get_next(check.schedule, L) - s))

is_check_due(check, last_run, t) ==
    IF ~check.enabled THEN Return(FALSE)
    ELSE IF IsNone(last_run)
    THEN IF croniter_valid(check.schedule)
         THEN Return(TRUE)
         ELSE Raise("ValueError", FALSE)
    ELSE IF ~croniter_valid(check.schedule) THEN Raise("ValueError", FALSE)
    ELSE Return(t >= get_next(check.schedule, Get(last_run)))

\* dict.get(name): None when the key is absent
DictGet(d, k) == IF k \in DOMAIN d THEN d[k] ELSE None

RECURSIVE get_due_checks_from(_, _, _, _, _)
get_due_checks_from(chks, last_runs, t, i, due) ==
    IF i > Len(chks) THEN due
    ELSE LET r == is_check_due(chks[i], DictGet(last_runs, chks[i].name), t)
         IN  IF r.kind = "raise"
             THEN get_due_checks_from(chks, last_runs, t, i + 1, due)
             ELSE IF r.value
             THEN get_due_checks_from(chks, last_runs, t, i + 1, Append(due, chks[i]))
             ELSE get_due_checks_from(chks, last_runs, t, i + 1, due)

RECURSIVE get_due_checks_abort(_, _, _, _, _)
get_due_checks_abort(chks, last_runs, t, i, due) ==
    IF i > Len(chks) THEN due
    ELSE LET r == is_check_due(chks[i], DictGet(last_runs, chks[i].name), t)
         IN  IF r.kind = "raise"
             THEN due
             ELSE IF r.value
             THEN get_due_checks_abort(chks, last_runs, t, i + 1, Append(due, chks[i]))
             ELSE get_due_checks_abort(chks, last_runs, t, i + 1, due)

get_due_checks_stops(chks, last_runs, t) ==
    get_due_checks_abort(chks, last_runs, t, 1, <<>>)

get_due_checks(chks, last_runs, t) ==
    get_due_checks_from(chks, last_runs, t, 1, <<>>)

----------------------------------------------------------------------------
(* Idle values of the three call records. *)

SchedIdle ==
    [pc |-> "idle", last_runs |-> <<>>, call |-> "none", arg |-> 0,
     result |-> Return(FALSE), due |-> <<>>]

\* no `run` process exists; n counts the invocations started so far
BatchIdle ==
    [pc |-> "idle", n |-> 0, opts |-> None, due_checks |-> <<>>, idx |-> 0,
     check_run |-> None, started |-> <<>>, exit |-> "none"]

RetryIdle ==
    [pc |-> "idle", func |-> "none", script |-> <<>>, max_attempts |-> 0,
     delay |-> 0, backoff |-> 0, exceptions |-> {}, attempt |-> 0,
     current_delay |-> 0, last_exception |-> None, calls |-> 0,
     sleeps |-> <<>>, result |-> None]

\* the store after init_schema: both tables empty
LlmIdle ==
    [pc |-> "idle", call |-> "none"]

NotifyIdle ==
    [pc |-> "idle"]

DbIdle ==
    [pc |-> "idle"]

RunnerIdle ==
    [pc |-> "idle"]

NoRuns == <<>>
NoState == [name \in {NameSeq[i] : i \in DOMAIN NameSeq} |-> None]

----------------------------------------------------------------------------
(* Direct calls of the scheduler: the inputs are drawn in InitDue. *)

\* the lists of at most MaxChecks checks, every enabled flag and schedule
CheckLists ==
    UNION {{[i \in 1..k |-> Check(NameSeq[i], f[i][1], f[i][2])] :
               f \in [1..k -> BOOLEAN \X Schedules]} : k \in 1..MaxChecks}

\* the last-run maps over some of the names of chks, with values in vals
LastRunMaps(chks, vals) ==
    UNION {[D -> vals] : D \in SUBSET {chks[i].name : i \in 1..Len(chks)}}

\* every last-run value up to t, and the few a list call is given
LastRunsUpTo(t) == {None} \cup {Some(u) : u \in 0..t}
LastRunSamples(t) == {None, Some(0), Some(t)} \cup {Some(u) : u \in {t - 1} \cap Times}

InitDue ==
    /\ now \in Times
    /\ \/ /\ checks \in {c \in CheckLists : Len(c) = 1}
          /\ sched \in {[SchedIdle EXCEPT !.pc = "input", !.call = "is_check_due",
                                          !.arg = 1, !.last_runs = m] :
                           m \in LastRunMaps(checks, LastRunsUpTo(now))}
       \/ /\ checks \in CheckLists
          /\ sched \in {[SchedIdle EXCEPT !.pc = "input", !.call = "get_due_checks",
                                          !.last_runs = m] :
                           m \in LastRunMaps(checks, LastRunSamples(now))}
    /\ check_runs = NoRuns
    /\ check_state = NoState
    /\ exec_log = <<>>
    /\ batch = BatchIdle
    /\ retry = RetryIdle
    /\ llm = LlmIdle
    /\ notify = NotifyIdle
    /\ db = DbIdle
    /\ runner = RunnerIdle

IsCheckDueCall ==
    /\ sched.pc = "input"
    /\ sched.call = "is_check_due"
    /\ sched' = [sched EXCEPT
                    !.pc = "done",
                    !.result = is_check_due(checks[sched.arg],
                                   DictGet(sched.last_runs, checks[sched.arg].name),
                                   now)]
    /\ UNCHANGED <<now, checks, check_runs, check_state, exec_log, batch, retry, llm, notify, db, runner>>

GetDueChecksCall ==
    /\ sched.pc = "input"
    /\ sched.call = "get_due_checks"
    /\ sched' = [sched EXCEPT
                    !.pc = "done",
                    !.due = get_due_checks(checks, sched.last_runs, now)]
    /\ UNCHANGED <<now, checks, check_runs, check_state, exec_log, batch, retry, llm, notify, db, runner>>

NextDue ==
    \/ IsCheckDueCall
    \/ GetDueChecksCall

SpecDue == InitDue /\ [][NextDue]_vars

\* the arguments of the is_check_due call that has returned
DueCheck == checks[1]
DueLastRun == DictGet(sched.last_runs, DueCheck.name)
DueCalled == sched.pc = "done" /\ sched.call = "is_check_due"

\* some instant of the schedule lies in (after, upto]
InstantIn(schedule, after, upto) ==
    \E s \in (after + 1)..upto : Matches(schedule, s)

----------------------------------------------------------------------------
(* C4: for an enabled check with a valid schedule and a last-run time L,    *)
(* is_check_due returns true exactly when the current time has reached the  *)
(* first scheduled instant strictly after L, that is, when a scheduled      *)
(* instant lies in (L, now].  With the hourly schedule and L five minutes   *)
(* (one tick) after an hourly boundary it is false until the next boundary  *)
(* (eleven ticks after L) and true from then on; when L is itself a         *)
(* scheduled instant the check is not due before the following instant.     *)
C4_DueIffNextInstantReached ==
    (/\ DueCalled
     /\ DueCheck.enabled
     /\ croniter_valid(DueCheck.schedule)
     /\ ~IsNone(DueLastRun))
    => LET L == Get(DueLastRun)
       IN  /\ sched.result.kind = "return"
           /\ sched.result.value <=> InstantIn(DueCheck.schedule, L, now)
           /\ (DueCheck.schedule = "0 * * * *" /\ MinuteOf(L) = 5)
                  => (sched.result.value <=> now >= L + 11)
           /\ (Matches(DueCheck.schedule, L) /\ sched.result.value)
                  => \E s \in (L + 1)..now : Matches(DueCheck.schedule, s)

\* hourly, last run one tick after the boundary 0, asked at the boundary 12
C4_Witness ==
    /\ DueCalled
    /\ DueCheck.enabled
    /\ DueCheck.schedule = "0 * * * *"
    /\ DueLastRun = Some(1)
    /\ now = 12
    /\ sched.result = Return(TRUE)

(* C5 as stated: a run late by d relative to its scheduled instant s shifts *)
(* the next due instant by d, so the check is due again only from s' + d on,*)
(* s' being the scheduled instant after s.                                  *)
C5_LatenessShiftsDueInstant ==
    (/\ DueCalled
     /\ DueCheck.enabled
     /\ croniter_valid(DueCheck.schedule)
     /\ ~IsNone(DueLastRun))
    => LET L == Get(DueLastRun)
           s == PrevSlot(DueCheck.schedule, L)
           d == L - s
       IN  sched.result.value <=> now >= get_next(DueCheck.schedule, s) + d

(* C5 amended: the lateness of a run does not shift the next due instant:   *)
(* after a run at L, late by d >= 0 relative to its scheduled instant s, the*)
(* check is due exactly from the scheduled instant that follows s, as it    *)
(* would be after a run at s itself, and that instant is at most one        *)
(* schedule interval after L.                                               *)
C5_LatenessDoesNotShift ==
    (/\ DueCalled
     /\ DueCheck.enabled
     /\ croniter_valid(DueCheck.schedule)
     /\ ~IsNone(DueLastRun))
    => LET L == Get(DueLastRun)
           s == PrevSlot(DueCheck.schedule, L)
           nxt == CHOOSE u \in (s + 1)..(s + 12) :
                      /\ Matches(DueCheck.schedule, u)
                      /\ \A v \in (s + 1)..(u - 1) : ~Matches(DueCheck.schedule, v)
       IN  /\ sched.result.kind = "return"
           /\ sched.result.value <=> now >= nxt
           /\ L < nxt

\* every ten minutes, last run one tick late (slot 0), asked at the slot 2
C5_Witness ==
    /\ DueCalled
    /\ DueCheck.enabled
    /\ DueCheck.schedule = "*/10 * * * *"
    /\ DueLastRun = Some(1)
    /\ now = 2
    /\ sched.result = Return(TRUE)

(* C6 as stated: whatever the check, with no recorded last run is_check_due *)
(* returns true when the schedule is valid and raises when it is not.       *)
C6_NeverRunDueOrInvalid ==
    (DueCalled /\ IsNone(DueLastRun))
    => IF croniter_valid(DueCheck.schedule)
       THEN sched.result = Return(TRUE)
       ELSE sched.result.kind = "raise"

(* C6 amended: for every enabled check with no recorded last run            *)
(* is_check_due returns true when the schedule is valid and raises the      *)
(* invalid-schedule error (ValueError) when it is not.                      *)
C6_EnabledNeverRunDueOrInvalid ==
    (DueCalled /\ DueCheck.enabled /\ IsNone(DueLastRun))
    => IF croniter_valid(DueCheck.schedule)
       THEN sched.result = Return(TRUE)
       ELSE sched.result.kind = "raise" /\ sched.result.exc = "ValueError"

\* an enabled check with an unparseable schedule and no last run has raised
C6_Witness ==
    /\ DueCalled
    /\ DueCheck.enabled
    /\ IsNone(DueLastRun)
    /\ ~croniter_valid(DueCheck.schedule)
    /\ sched.result.kind = "raise"

(* C8: get_due_checks returns, for every input, the sub-list of the input   *)
(* (in input order) of exactly the enabled checks with a valid schedule that*)
(* are due: never run (None or no entry in the map), or with a scheduled    *)
(* instant in (last run, now].  A check with an invalid schedule is left    *)
(* out and does not end the call.                                           *)
C8_WantedDue(c) ==
    /\ c.enabled
    /\ croniter_valid(c.schedule)
    /\ \/ c.name \notin DOMAIN sched.last_runs
       \/ IsNone(sched.last_runs[c.name])
       \/ InstantIn(c.schedule, Get(sched.last_runs[c.name]), now)

C8_DueChecksAreTheDueSublist ==
    (sched.pc = "done" /\ sched.call = "get_due_checks")
    => sched.due = SelectSeq(checks, C8_WantedDue)

\* the first check has an invalid schedule, the second is due and returned
C8_Witness ==
    /\ sched.pc = "done"
    /\ sched.call = "get_due_checks"
    /\ Len(checks) = 2
    /\ checks[1].enabled
    /\ ~croniter_valid(checks[1].schedule)
    /\ sched.due = <<checks[2]>>

----------------------------------------------------------------------------
(* runner.py.  A string is a sequence of one-character strings. *)

\* what the subprocess does: it ends with a return code, exceeds the
\* timeout, or cannot be run at all
CommandOutcomes ==
    {[kind |-> "exit", code |-> 0, stdout |-> <<"o", "k">>],
     [kind |-> "exit", code |-> 0, stdout |-> <<>>],
     [kind |-> "exit", code |-> 1, stdout |-> <<"n", "o">>],
     [kind |-> "exit", code |-> 1, stdout |-> <<>>],
     [kind |-> "timeout", code |-> 0, stdout |-> <<"o">>],
     [kind |-> "timeout", code |-> 0, stdout |-> <<" ", "o", "\n">>],
     [kind |-> "timeout", code |-> 0, stdout |-> <<>>],
     [kind |-> "timeout_bad_bytes", code |-> 0, stdout |-> <<>>],
     [kind |-> "oserror", code |-> 0, stdout |-> <<>>]}

\* str.strip(): without the leading and trailing whitespace
IsSpace(ch) == ch \in {" ", "\n", "\t", "\r"}

RECURSIVE LStrip(_)
LStrip(str) ==
    IF str = <<>> THEN <<>>
    ELSE IF IsSpace(Head(str)) THEN LStrip(Tail(str))
    ELSE str

RECURSIVE RStrip(_)
RStrip(str) ==
    IF str = <<>> THEN <<>>
    ELSE IF IsSpace(str[Len(str)]) THEN RStrip(SubSeq(str, 1, Len(str) - 1))
    ELSE str

Strip(str) == RStrip(LStrip(str))

\* str(n) for n >= 0
RECURSIVE Decimal(_)
Decimal(n) ==
    IF n < 10
    THEN <<<<"0", "1", "2", "3", "4", "5", "6", "7", "8", "9">>[n + 1]>>
    ELSE Decimal(n \div 10) \o Decimal(n % 10)

\* "\n[Command timed out after {timeout}s]"
TimeoutMarker(timeout) ==
    <<"\n", "[", "C", "o", "m", "m", "a", "n", "d", " ", "t", "i", "m", "e", "d",
      " ", "o", "u", "t", " ", "a", "f", "t", "e", "r", " ">>
    \o Decimal(timeout) \o <<"s", "]">>

\* str(RunnerError(...)) of a command that could not be run
LaunchErrorText ==
    <<"C", "o", "m", "m", "a", "n", "d", " ", "e", "x", "e", "c", "u", "t", "i",
      "o", "n", " ", "f", "a", "i", "l", "e", "d">>

\* run_command: (output, exit_code, duration_ms), or the exception it raises.
\* The output captured up to a timeout arrives as bytes and is decoded in the
\* handler of TimeoutExpired, outside the reach of `except Exception`.
run_command(command, timeout, outcome) ==
    CASE outcome.kind = "exit" ->
            Return([output |-> Strip(outcome.stdout), exit_code |-> outcome.code,
                    duration_ms |-> 1])
      [] outcome.kind = "timeout" ->
            Return([output |-> Strip(outcome.stdout \o TimeoutMarker(timeout)),
                    exit_code |-> -1, duration_ms |-> 1])
      [] outcome.kind = "timeout_bad_bytes" ->
            Raise("UnicodeDecodeError", [output |-> <<>>, exit_code |-> -1,
                                         duration_ms |-> 1])
      [] OTHER ->
            Raise("RunnerError", [output |-> LaunchErrorText, exit_code |-> -1,
                                  duration_ms |-> 0])

\* models.py: CheckRun, as run_check builds it
CheckRun(check_name, run_at, output, exit_code, duration_ms, status) ==
    [check_name |-> check_name, run_at |-> run_at, command_output |-> output,
     command_exit_code |-> exit_code, command_duration_ms |-> duration_ms,
     status |-> status, llm_model |-> None, llm_response |-> None,
     llm_duration_ms |-> None, alert_sent |-> FALSE, alert_message |-> None,
     id |-> None]

\* the initial status run_check gives a run
initial_status(exit_code) == IF exit_code = 0 THEN "ok" ELSE "error"

\* run_check at time t: the run, or the exception run_command lets through
run_check_call(check, t, outcome) ==
    LET r == run_command(check.command, check.timeout, outcome)
    IN  IF r.kind = "return"
        THEN Return(CheckRun(check.name, t, r.value.output, r.value.exit_code,
                             r.value.duration_ms, initial_status(r.value.exit_code)))
        ELSE IF r.exc = "RunnerError"
        THEN Return(CheckRun(check.name, t, r.value.output, -1, 0, "error"))
        ELSE Raise(r.exc, CheckRun(check.name, t, <<>>, -1, 0, "error"))

\* the run run_check returns
run_check(check, t, outcome) == run_check_call(check, t, outcome).value

\* "\n\n[... truncated {n} characters ...]\n\n"
TruncationMarker(n) ==
    <<"\n", "\n", "[", ".", ".", ".", " ", "t", "r", "u", "n", "c", "a", "t", "e",
      "d", " ">>
    \o Decimal(n)
    \o <<" ", "c", "h", "a", "r", "a", "c", "t", "e", "r", "s", " ", ".", ".", ".",
         "]", "\n", "\n">>

\* Python's output[-keep:]: the last keep characters, and all of them for keep = 0
LastChars(output, keep) ==
    IF keep = 0 \/ keep >= Len(output) THEN output
    ELSE SubSeq(output, Len(output) - keep + 1, Len(output))

truncate_output(output, max_chars) ==
    IF Len(output) <= max_chars THEN output
    ELSE LET keep == max_chars \div 2
         IN  SubSeq(output, 1, keep)
             \o TruncationMarker(Len(output) - max_chars)
             \o LastChars(output, keep)

----------------------------------------------------------------------------
(* cli.py: the command `run`. *)

\* the check files of the installation
LoadedChecks ==
    <<Check("backup", FALSE, "*/10 * * * *"),
      Check("cert", TRUE, "not-a-cron"),
      Check("disk", TRUE, "*/10 * * * *"),
      Check("raid", TRUE, "0 * * * *")>>

\* the command lines of `run`
RunOptions ==
    [run_all : BOOLEAN, force : BOOLEAN, dry_run : BOOLEAN, no_notify : BOOLEAN,
     check_name : {None} \cup {Some(NameSeq[i]) : i \in DOMAIN NameSeq}
                         \cup {Some("nonexistent")}]

\* [c for c in checks if c.name == check_name]
IsNamed(opts, c) == c.name = Get(opts.check_name)
FilterByName(chks, opts) ==
    LET Named(c) == IsNamed(opts, c) IN SelectSeq(chks, Named)

\* [c for c in checks if c.enabled]
IsEnabled(c) == c.enabled
SelectAllChecks(chks) == chks

SelectEnabled(chks) == SelectSeq(chks, IsEnabled)

\* lines 112-115: the last-run map read from the store
LastRunsOfStore(chks) ==
    [name \in {chks[i].name : i \in 1..Len(chks)} |->
        IF IsNone(check_state[name]) THEN None
        ELSE Get(check_state[name]).last_run_at]

\* whether the invocation is schedule-driven
ScheduleDriven(opts) ==
    ~opts.run_all /\ ~opts.force /\ IsNone(opts.check_name)

\* lines 100-116: the checks this invocation is to run
DueChecksOf(chks, opts) ==
    IF opts.run_all \/ opts.force \/ ~IsNone(opts.check_name)
    THEN SelectEnabled(chks)
    ELSE get_due_checks(chks, LastRunsOfStore(chks), now)

\* a `run` that does not look at --dry-run
RunStart_ignores_dry_run(opts) ==
    /\ batch.pc = "idle"
    /\ batch.n < MaxInvocations
    /\ LET named == IF IsNone(opts.check_name) THEN checks
                    ELSE FilterByName(checks, opts)
           due == DueChecksOf(named, opts)
           ended(why) == [BatchIdle EXCEPT !.n = batch.n + 1, !.exit = why]
       IN  batch' =
             IF checks = <<>> THEN ended("no_checks")
             ELSE IF named = <<>> THEN ended("SystemExit")
             ELSE IF due = <<>> THEN ended("none_due")
             ELSE [pc |-> "loop", n |-> batch.n + 1, opts |-> Some(opts),
                   due_checks |-> due, idx |-> 1, check_run |-> None,
                   started |-> <<>>, exit |-> "none"]
    /\ UNCHANGED <<now, checks, check_runs, check_state, exec_log, sched, retry, llm, notify, db, runner>>

\* lines 86-131: from the start of `run` to the head of the loop
RunStart(opts) ==
    /\ batch.pc = "idle"
    /\ batch.n < MaxInvocations
    /\ LET named == IF IsNone(opts.check_name) THEN checks
                    ELSE FilterByName(checks, opts)
           due == DueChecksOf(named, opts)
           ended(why) == [BatchIdle EXCEPT !.n = batch.n + 1, !.exit = why]
       IN  batch' =
             IF checks = <<>> THEN ended("no_checks")
             ELSE IF named = <<>> THEN ended("SystemExit")
             ELSE IF due = <<>> THEN ended("none_due")
             ELSE IF opts.dry_run
             THEN [ended("dry_run") EXCEPT !.due_checks = due]
             ELSE [pc |-> "loop", n |-> batch.n + 1, opts |-> Some(opts),
                   due_checks |-> due, idx |-> 1, check_run |-> None,
                   started |-> <<>>, exit |-> "none"]
    /\ UNCHANGED <<now, checks, check_runs, check_state, exec_log, sched, retry, llm, notify, db, runner>>

\* a loop that takes the due checks from the end of the list
current_check_reversed(b) == b.due_checks[Len(b.due_checks) - b.idx + 1]

\* `for check in due_checks`: the check of the current iteration
current_check(b) == b.due_checks[b.idx]

\* lines 133-151: run_check executes the command of the next due check, and
\* its output is truncated for storage
RunCheckStep(outcome) ==
    /\ batch.pc = "loop"
    /\ batch.idx <= Len(batch.due_checks)
    /\ LET check == current_check(batch)
           call == run_check_call(check, now, outcome)
           r == call.value
       IN  /\ exec_log' = Append(exec_log,
                             [check |-> check.name, at |-> now,
                              scheduled |-> ScheduleDriven(Get(batch.opts))])
           /\ batch' =
                 IF call.kind = "raise"
                 THEN [batch EXCEPT !.pc = "idle", !.opts = None, !.check_run = None,
                                    !.started = Append(batch.started, check.name),
                                    !.exit = call.exc]
                 ELSE [batch EXCEPT
                          !.pc = "executed",
                          !.started = Append(batch.started, check.name),
                          !.check_run =
                              Some([r EXCEPT !.command_output =
                                        truncate_output(r.command_output, 50000)])]
    /\ UNCHANGED <<now, checks, check_runs, check_state, sched, retry, llm, notify, db, runner>>

\* line 153: `check.use_llm` is read.  Check declares no such field and
\* from_dict sets none, so the read raises AttributeError; `run` has no
\* handler, the exception leaves the loop and ends the process.
ReadUseLlm ==
    /\ batch.pc = "executed"
    /\ ~HasAttr(current_check(batch), "use_llm")
    /\ batch' = [batch EXCEPT !.pc = "idle", !.opts = None, !.check_run = None,
                                !.exit = "AttributeError"]
    /\ UNCHANGED <<now, checks, check_runs, check_state, exec_log, sched, retry, llm, notify, db, runner>>

\* the wall clock advances
Tick ==
    /\ now < MaxClock
    /\ now' = now + 1
    /\ UNCHANGED <<checks, check_runs, check_state, exec_log, batch, sched, retry, llm, notify, db, runner>>

Init ==
    /\ now = 0
    /\ checks = LoadedChecks
    /\ check_runs = NoRuns
    /\ check_state = NoState
    /\ exec_log = <<>>
    /\ batch = BatchIdle
    /\ sched = SchedIdle
    /\ retry = RetryIdle
    /\ llm = LlmIdle
    /\ notify = NotifyIdle
    /\ db = DbIdle
    /\ runner = RunnerIdle

Next ==
    \/ \E opts \in RunOptions : RunStart(opts)
    \/ \E outcome \in CommandOutcomes : RunCheckStep(outcome)
    \/ ReadUseLlm
    \/ Tick

Spec == Init /\ [][Next]_vars

\* the check definition of a name
CheckNamed(name) ==
    checks[CHOOSE i \in DOMAIN checks : checks[i].name = name]

\* an invocation that entered the loop has ended
LoopEnded ==
    batch.pc = "idle" /\ batch.due_checks # <<>> /\ batch.exit # "dry_run"

----------------------------------------------------------------------------
(* C1 as stated: once an invocation has ended, every check whose processing *)
(* it started has been persisted: the run records are, one for one and in   *)
(* order, those of the executed commands (same check, run_at the time the   *)
(* command started) and a state row exists for each executed check.         *)
C1_StartedChecksArePersisted ==
    batch.pc = "idle"
    => /\ Len(check_runs) = Len(exec_log)
       /\ \A k \in DOMAIN exec_log :
             /\ check_runs[k].check_name = exec_log[k].check
             /\ check_runs[k].run_at = exec_log[k].at
             /\ ~IsNone(check_state[exec_log[k].check])

(* C2 as stated: no error of one check leaves the loop: an invocation that  *)
(* entered the loop ends by completing it, having executed every check of   *)
(* its due list, in order.                                                  *)
C2_NoErrorEscapesTheLoop ==
    LoopEnded
    => /\ batch.exit = "completed"
       /\ batch.started = [i \in 1..Len(batch.due_checks) |-> batch.due_checks[i].name]

(* C3 as stated: between two consecutive executions of a check at r1 < r2,  *)
(* the later one by a schedule-driven invocation, a scheduled instant s of  *)
(* the check lies in (r1, r2].                                              *)
C3_OncePerScheduleInterval ==
    \A i, j \in DOMAIN exec_log :
        (/\ i < j
         /\ exec_log[i].check = exec_log[j].check
         /\ \A k \in (i + 1)..(j - 1) : exec_log[k].check # exec_log[i].check
         /\ exec_log[i].scheduled
         /\ exec_log[j].scheduled
         /\ exec_log[i].at < exec_log[j].at)
        => InstantIn(CheckNamed(exec_log[j].check).schedule,
                     exec_log[i].at, exec_log[j].at)

(* C7: a disabled check is never executed.  is_check_due returns false for  *)
(* it whatever the last-run time, absent included; every list of checks to  *)
(* run, in the scheduled and in the --all, --force and named modes, holds   *)
(* enabled checks only; no command of a disabled check has been executed    *)
(* and the store holds no run record and no state row of one.               *)
C7_DisabledNeverExecuted ==
    /\ \A i \in DOMAIN checks :
          ~checks[i].enabled
          => /\ \A lr \in LastRunsUpTo(now) :
                   is_check_due(checks[i], lr, now) = Return(FALSE)
             /\ IsNone(check_state[checks[i].name])
    /\ \A i \in DOMAIN batch.due_checks : batch.due_checks[i].enabled
    /\ \A k \in DOMAIN exec_log : CheckNamed(exec_log[k].check).enabled
    /\ \A k \in DOMAIN check_runs : CheckNamed(check_runs[k].check_name).enabled

\* a disabled check is loaded, and both a forced and a scheduled invocation
\* have executed a command
C7_Witness ==
    /\ \E i \in DOMAIN checks : ~checks[i].enabled
    /\ \E k \in DOMAIN exec_log : exec_log[k].scheduled
    /\ \E k \in DOMAIN exec_log : ~exec_log[k].scheduled
    /\ batch.pc = "idle"

----------------------------------------------------------------------------
(* llm.py and notify.py: the request functions handed to retry_on_error. *)

\* what one HTTP request meets: a 2xx reply (with a usable body, with a body
\* that is not JSON, with a JSON body whose "response" is no string), a 4xx or
\* 5xx reply, a timeout, a connection failure, another failure of the request
HttpOutcomes ==
    {"2xx", "2xx_bad_json", "2xx_no_string", "4xx", "5xx", "timeout",
     "connect_error", "protocol_error"}

\* OllamaClient.generate._do_request
do_request(outcome) ==
    CASE outcome = "2xx" -> Return("response")
      [] outcome = "2xx_bad_json" -> Raise("JSONDecodeError", "not json")
      [] outcome = "2xx_no_string" -> Raise("AttributeError", "no strip")
      [] outcome = "timeout" -> Raise("LLMError", "LLM request timed out")
      [] outcome = "4xx" -> Raise("LLMError", "LLM request failed")
      [] outcome = "5xx" -> Raise("LLMError", "LLM server error")
      [] OTHER -> Raise("LLMError", "LLM connection error")

\* NtfyClient.send._do_send
do_send(outcome) ==
    CASE outcome \in {"2xx", "2xx_bad_json", "2xx_no_string"} -> Return("True")
      [] outcome = "4xx" -> Raise("NotifyError", "ntfy request failed")
      [] outcome = "5xx" -> Raise("NotifyError", "ntfy server error")
      [] OTHER -> Raise("NotifyError", "ntfy connection error")

\* a scripted function of a direct call: it returns, or raises E1 or E2
do_scripted(outcome) ==
    IF outcome = "ok" THEN Return("value") ELSE Raise(outcome, "failed")

\* func(): the k-th call meets the k-th outcome of the script
CallFunc(func, outcome) ==
    CASE func = "generate" -> do_request(outcome)
      [] func = "send" -> do_send(outcome)
      [] OTHER -> do_scripted(outcome)

\* OllamaClient and NtfyClient: max_retries as `run` constructs them
DefaultMaxRetries == 3
\* delay=1.0 in both retry_on_error calls
ClientDelay == 1
\* retry_on_error: backoff = 2.0 unless given
DefaultBackoff == 2

----------------------------------------------------------------------------
(* retry.py *)

\* `except exceptions as e`: e is an instance of one of the classes
Caught(exc, classes) == exc \in classes \/ "Exception" \in classes

\* one iteration of the for loop, with its sleep
retry_iteration_nobackoff(rt) ==
    LET r == CallFunc(rt.func, rt.script[rt.attempt])
        called == [rt EXCEPT !.calls = rt.calls + 1]
    IN  IF r.kind = "return"
        THEN [called EXCEPT !.pc = "returned", !.result = Some(r)]
        ELSE IF Caught(r.exc, rt.exceptions)
        THEN IF rt.attempt < rt.max_attempts
             THEN [called EXCEPT !.last_exception = Some(r),
                                 !.sleeps = Append(rt.sleeps, rt.current_delay),
                                 !.attempt = rt.attempt + 1]
             ELSE [called EXCEPT !.last_exception = Some(r),
                                 !.attempt = rt.attempt + 1]
        ELSE [called EXCEPT !.pc = "raised", !.result = Some(r)]

retry_iteration_sleepsalways(rt) ==
    LET r == CallFunc(rt.func, rt.script[rt.attempt])
        called == [rt EXCEPT !.calls = rt.calls + 1]
    IN  IF r.kind = "return"
        THEN [called EXCEPT !.pc = "returned", !.result = Some(r)]
        ELSE IF Caught(r.exc, rt.exceptions)
        THEN [called EXCEPT !.last_exception = Some(r),
                            !.sleeps = Append(rt.sleeps, rt.current_delay),
                            !.current_delay = rt.current_delay * rt.backoff,
                            !.attempt = rt.attempt + 1]
        ELSE [called EXCEPT !.pc = "raised", !.result = Some(r)]

retry_iteration_catchall(rt) ==
    LET r == CallFunc(rt.func, rt.script[rt.attempt])
        called == [rt EXCEPT !.calls = rt.calls + 1]
    IN  IF r.kind = "return"
        THEN [called EXCEPT !.pc = "returned", !.result = Some(r)]
        ELSE IF rt.attempt < rt.max_attempts
        THEN [called EXCEPT !.last_exception = Some(r),
                            !.sleeps = Append(rt.sleeps, rt.current_delay),
                            !.current_delay = rt.current_delay * rt.backoff,
                            !.attempt = rt.attempt + 1]
        ELSE [called EXCEPT !.last_exception = Some(r),
                            !.attempt = rt.attempt + 1]

retry_iteration(rt) ==
    LET r == CallFunc(rt.func, rt.script[rt.attempt])
        called == [rt EXCEPT !.calls = rt.calls + 1]
    IN  IF r.kind = "return"
        THEN [called EXCEPT !.pc = "returned", !.result = Some(r)]
        ELSE IF Caught(r.exc, rt.exceptions)
        THEN IF rt.attempt < rt.max_attempts
             THEN [called EXCEPT !.last_exception = Some(r),
                                 !.sleeps = Append(rt.sleeps, rt.current_delay),
                                 !.current_delay = rt.current_delay * rt.backoff,
                                 !.attempt = rt.attempt + 1]
             ELSE [called EXCEPT !.last_exception = Some(r),
                                 !.attempt = rt.attempt + 1]
        ELSE [called EXCEPT !.pc = "raised", !.result = Some(r)]

\* after the loop: the last exception is raised again
retry_exhausted(rt) ==
    IF ~IsNone(rt.last_exception)
    THEN [rt EXCEPT !.pc = "raised", !.result = rt.last_exception]
    ELSE [rt EXCEPT !.pc = "raised",
                    !.result = Some(Raise("RuntimeError", "no result"))]

\* retry_on_error entered: last_exception = None, current_delay = delay
RetryCall(func, script, max_attempts, delay, backoff, exceptions) ==
    [pc |-> "loop", func |-> func, script |-> script,
     max_attempts |-> max_attempts, delay |-> delay, backoff |-> backoff,
     exceptions |-> exceptions, attempt |-> 1, current_delay |-> delay,
     last_exception |-> None, calls |-> 0, sleeps |-> <<>>, result |-> None]

\* the calls generate and send make, and direct calls with drawn arguments
RetryCalls ==
    {RetryCall("generate", script, DefaultMaxRetries, ClientDelay,
               DefaultBackoff, {"LLMError"}) :
        script \in [1..DefaultMaxRetries -> HttpOutcomes]}
    \cup
    {RetryCall("send", script, DefaultMaxRetries, ClientDelay,
               DefaultBackoff, {"NotifyError"}) :
        script \in [1..DefaultMaxRetries -> HttpOutcomes]}
    \cup
    UNION {{RetryCall("scripted", script, n, delay, backoff, classes) :
               script \in [1..n -> {"ok", "E1", "E2"}],
               delay \in 0..MaxDelay, backoff \in 1..MaxBackoff,
               classes \in {{"E1"}, {"Exception"}}} : n \in 0..MaxAttempts}

InitRetry ==
    /\ now = 0
    /\ checks = LoadedChecks
    /\ check_runs = NoRuns
    /\ check_state = NoState
    /\ exec_log = <<>>
    /\ batch = BatchIdle
    /\ sched = SchedIdle
    /\ retry \in RetryCalls
    /\ llm = LlmIdle
    /\ notify = NotifyIdle
    /\ db = DbIdle
    /\ runner = RunnerIdle

RetryAttempt ==
    /\ retry.pc = "loop"
    /\ retry.attempt <= retry.max_attempts
    /\ retry' = retry_iteration(retry)
    /\ UNCHANGED <<now, checks, check_runs, check_state, exec_log, batch, sched, llm, notify, db, runner>>

RetryExhausted ==
    /\ retry.pc = "loop"
    /\ retry.attempt > retry.max_attempts
    /\ retry' = retry_exhausted(retry)
    /\ UNCHANGED <<now, checks, check_runs, check_state, exec_log, batch, sched, llm, notify, db, runner>>

NextRetry ==
    \/ RetryAttempt
    \/ RetryExhausted

SpecRetry == InitRetry /\ [][NextRetry]_vars

\* the call has ended
RetryEnded == retry.pc \in {"returned", "raised"}

\* whether the k-th call of func fails with an error that is retried
FailsRetryably(rt, k) ==
    LET r == CallFunc(rt.func, rt.script[k])
    IN  r.kind = "raise" /\ Caught(r.exc, rt.exceptions)

RECURSIVE Pow(_, _)
Pow(b, e) == IF e = 0 THEN 1 ELSE b * Pow(b, e - 1)

----------------------------------------------------------------------------
(* C9 as stated: a 4xx reply of the LLM or of the notification backend is   *)
(* not retried: the call ends raising after exactly one request and without *)
(* any sleep.                                                               *)
C9_ClientErrorIsNotRetried ==
    (/\ RetryEnded
     /\ retry.func \in {"generate", "send"}
     /\ retry.script[1] = "4xx")
    => /\ retry.pc = "raised"
       /\ retry.calls = 1
       /\ retry.sleeps = <<>>

(* C10: when func fails j < max_attempts times with a retryable error and   *)
(* then succeeds, retry_on_error returns the success value after exactly    *)
(* j + 1 calls and j sleeps, the i-th sleep lasting delay * backoff^(i-1);  *)
(* the sleeps increase strictly when delay > 0 and backoff > 1.             *)
C10_SucceedsAfterRetries ==
    \A j \in 0..MaxAttempts :
        (/\ RetryEnded
         /\ j < retry.max_attempts
         /\ \A k \in 1..j : FailsRetryably(retry, k)
         /\ CallFunc(retry.func, retry.script[j + 1]).kind = "return")
        => /\ retry.pc = "returned"
           /\ retry.result = Some(CallFunc(retry.func, retry.script[j + 1]))
           /\ retry.calls = j + 1
           /\ Len(retry.sleeps) = j
           /\ \A i \in 1..j : retry.sleeps[i] = retry.delay * Pow(retry.backoff, i - 1)
           /\ (retry.delay > 0 /\ retry.backoff > 1)
                 => \A i \in 1..(j - 1) : retry.sleeps[i] < retry.sleeps[i + 1]

\* two failures, then success, with max_attempts = 3: two sleeps, 1 and 2
C10_Witness ==
    /\ retry.pc = "returned"
    /\ retry.func = "scripted"
    /\ retry.max_attempts = 3
    /\ retry.script = <<"E1", "E1", "ok">>
    /\ retry.delay = 1
    /\ retry.backoff = 2
    /\ retry.calls = 3
    /\ retry.sleeps = <<1, 2>>

(* C11: when func fails with a retryable error on every call and          *)
(* max_attempts >= 1, retry_on_error calls it exactly max_attempts times,   *)
(* sleeps exactly max_attempts - 1 times (never after the last failure) and *)
(* raises the error of the last attempt.                                    *)
C11_ExhaustedRaisesLastError ==
    (/\ RetryEnded
     /\ retry.max_attempts >= 1
     /\ \A k \in 1..retry.max_attempts : FailsRetryably(retry, k))
    => /\ retry.pc = "raised"
       /\ retry.calls = retry.max_attempts
       /\ Len(retry.sleeps) = retry.max_attempts - 1
       /\ retry.result =
             Some(CallFunc(retry.func, retry.script[retry.max_attempts]))

\* three failures of three attempts, the last of another class than the first
C11_Witness ==
    /\ retry.pc = "raised"
    /\ retry.func = "scripted"
    /\ retry.exceptions = {"Exception"}
    /\ retry.script = <<"E1", "E1", "E2">>
    /\ retry.calls = 3
    /\ Len(retry.sleeps) = 2
    /\ Get(retry.result).exc = "E2"

(* C12: when the first call of func raises an error that is not an instance *)
(* of the retryable classes, retry_on_error raises that error after exactly *)
(* one call and without any sleep, whatever max_attempts (>= 1) is.         *)
C12_OtherErrorPropagatesAtOnce ==
    (/\ RetryEnded
     /\ retry.max_attempts >= 1
     /\ CallFunc(retry.func, retry.script[1]).kind = "raise"
     /\ ~Caught(CallFunc(retry.func, retry.script[1]).exc, retry.exceptions))
    => /\ retry.pc = "raised"
       /\ retry.calls = 1
       /\ retry.sleeps = <<>>
       /\ retry.result = Some(CallFunc(retry.func, retry.script[1]))

\* E2 raised by the first of three allowed attempts while only E1 is retried
C12_Witness ==
    /\ retry.pc = "raised"
    /\ retry.func = "scripted"
    /\ retry.exceptions = {"E1"}
    /\ retry.max_attempts = 3
    /\ retry.script[1] = "E2"
    /\ retry.calls = 1
    /\ retry.sleeps = <<>>

----------------------------------------------------------------------------
(* llm.py: _parse_llm_status.  A text is a sequence of characters. *)

UpperCase ==
    <<"A", "B", "C", "D", "E", "F", "G", "H", "I", "J", "K", "L", "M", "N", "O",
      "P", "Q", "R", "S", "T", "U", "V", "W", "X", "Y", "Z">>

LowerCase ==
    <<"a", "b", "c", "d", "e", "f", "g", "h", "i", "j", "k", "l", "m", "n", "o",
      "p", "q", "r", "s", "t", "u", "v", "w", "x", "y", "z">>

\* str.lower()
LowerChar(ch) ==
    IF \E i \in DOMAIN UpperCase : UpperCase[i] = ch
    THEN LowerCase[CHOOSE i \in DOMAIN UpperCase : UpperCase[i] = ch]
    ELSE ch

Lower(str) == [i \in DOMAIN str |-> LowerChar(str[i])]

\* str.startswith(prefix)
StartsWith(str, prefix) ==
    /\ Len(str) >= Len(prefix)
    /\ SubSeq(str, 1, Len(prefix)) = prefix

\* sub in str
Contains(str, sub) ==
    \E i \in 1..(Len(str) - Len(sub) + 1) : SubSeq(str, i, i + Len(sub) - 1) = sub

\* str.split("\n")
RECURSIVE SplitLines(_)
SplitLines(str) ==
    IF \E i \in DOMAIN str : str[i] = "\n"
    THEN LET i == CHOOSE k \in DOMAIN str :
                     str[k] = "\n" /\ \A m \in 1..(k - 1) : str[m] # "\n"
         IN  <<SubSeq(str, 1, i - 1)>> \o SplitLines(SubSeq(str, i + 1, Len(str)))
    ELSE <<str>>

\* str.split()[0] if str else "": the first whitespace-delimited word
RECURSIVE UpToSpace(_)
UpToSpace(str) ==
    IF str = <<>> \/ IsSpace(Head(str)) THEN <<>>
    ELSE <<Head(str)>> \o UpToSpace(Tail(str))

FirstWord(str) == UpToSpace(LStrip(str))

StatusPrefix == <<"s", "t", "a", "t", "u", "s", ":">>

OkWord == <<"o", "k">>

AlertWord == <<"a", "l", "e", "r", "t">>

\* the values of a status line that yield ALERT
AlertValues ==
    {<<"w", "a", "r", "n", "i", "n", "g">>, AlertWord,
     <<"c", "r", "i", "t", "i", "c", "a", "l">>, <<"e", "r", "r", "o", "r">>}

ok_phrases ==
    {<<"n", "o", " ", "i", "s", "s", "u", "e", "s">>,
     <<"n", "o", " ", "p", "r", "o", "b", "l", "e", "m", "s">>,
     <<"a", "l", "l", " ", "g", "o", "o", "d">>,
     <<"a", "l", "l", " ", "s", "y", "s", "t", "e", "m", "s", " ", "n", "o",
  "r", "m", "a", "l">>,
     <<"e", "v", "e", "r", "y", "t", "h", "i", "n", "g", " ", "i", "s", " ",
  "f", "i", "n", "e">>}

\* line_lower[7:].strip() of a line that starts with "status:"
StatusPart(line) ==
    LET line_lower == Lower(Strip(line))
    IN  Strip(SubSeq(line_lower, Len(StatusPrefix) + 1, Len(line_lower)))

ParsedOk == [status |-> "ok", alert_message |-> None]

ParsedAlert(message) == [status |-> "alert", alert_message |-> Some(message)]

\* fallbacks whose all-clear rule is blocked only by the first word "alert"
parse_fallback_exact_alert(response_stripped) ==
    LET response_lower == Lower(response_stripped)
        first_word == FirstWord(response_lower)
    IN  IF \/ first_word = OkWord
           \/ StartsWith(response_lower, OkWord \o <<".">>)
           \/ StartsWith(response_lower, OkWord \o <<"\n">>)
        THEN ParsedOk
        ELSE IF /\ \E phrase \in ok_phrases : Contains(response_lower, phrase)
                /\ first_word # AlertWord
        THEN ParsedOk
        ELSE ParsedAlert(response_stripped)

\* the fallbacks after the loop over the lines
parse_fallback(response_stripped) ==
    LET response_lower == Lower(response_stripped)
        first_word == FirstWord(response_lower)
    IN  IF \/ first_word = OkWord
           \/ StartsWith(response_lower, OkWord \o <<".">>)
           \/ StartsWith(response_lower, OkWord \o <<"\n">>)
        THEN ParsedOk
        ELSE IF /\ \E phrase \in ok_phrases : Contains(response_lower, phrase)
                /\ ~Contains(first_word, AlertWord)
        THEN ParsedOk
        ELSE ParsedAlert(response_stripped)

\* the loop over the lines, from line i on
RECURSIVE parse_lines(_, _, _)
parse_lines(lines, i, response_stripped) ==
    IF i > Len(lines) THEN parse_fallback(response_stripped)
    ELSE IF ~StartsWith(Lower(Strip(lines[i])), StatusPrefix)
    THEN parse_lines(lines, i + 1, response_stripped)
    ELSE IF StartsWith(StatusPart(lines[i]), OkWord) THEN ParsedOk
    ELSE IF \E v \in AlertValues : StartsWith(StatusPart(lines[i]), v)
    THEN ParsedAlert(response_stripped)
    ELSE parse_lines(lines, i + 1, response_stripped)

\* the single-word fallback tried before the status lines
parse_llm_status_heuristics_first(response) ==
    IF parse_fallback(Strip(response)) = ParsedOk THEN ParsedOk
    ELSE parse_lines(SplitLines(Strip(response)), 1, Strip(response))

parse_llm_status(response) ==
    parse_lines(SplitLines(Strip(response)), 1, Strip(response))

\* lines a model response is made of
ResponseLines ==
    {<<"O", "K">>,
     <<"o", "k", ".">>,
     <<"O", "k", "a", "y", " ", "t", "h", "e", "n">>,
     <<"S", "T", "A", "T", "U", "S", ":", " ", "O", "K">>,
     <<"S", "t", "a", "t", "u", "s", ":", " ", "o", "k", "a", "y">>,
     <<" ", "s", "t", "a", "t", "u", "s", ":", " ", "A", "L", "E", "R",
       "T", " ", "d", "i", "s", "k">>,
     <<"s", "t", "a", "t", "u", "s", ":", " ", "w", "a", "r", "n", "i",
       "n", "g">>,
     <<"s", "t", "a", "t", "u", "s", ":", "c", "r", "i", "t", "i", "c",
       "a", "l">>,
     <<"s", "t", "a", "t", "u", "s", ":", " ", "e", "r", "r", "o", "r">>,
     <<"s", "t", "a", "t", "u", "s", ":", " ", "u", "n", "k", "n", "o",
       "w", "n">>,
     <<"a", "l", "l", " ", "g", "o", "o", "d">>,
     <<"N", "o", " ", "i", "s", "s", "u", "e", "s", " ", "f", "o", "u",
       "n", "d">>,
     <<"a", "l", "e", "r", "t", "s", ":", " ", "e", "v", "e", "r", "y",
       "t", "h", "i", "n", "g", " ", "i", "s", " ", "f", "i", "n", "e">>,
     <<"A", "l", "e", "r", "t", " ", "n", "o", " ", "i", "s", "s", "u", "e", "s">>,
     <<"d", "i", "s", "k", " ", "f", "a", "i", "l", "i", "n", "g">>,
     <<>>,
     <<"T", "h", "e", " ", "s", "t", "a", "t", "u", "s", ":", " ", "o", "k">>}

MaxLines == 2

\* "\n".join(lines)
RECURSIVE JoinLines(_)
JoinLines(lines) ==
    IF Len(lines) = 1 THEN lines[1]
    ELSE lines[1] \o <<"\n">> \o JoinLines(Tail(lines))

Responses ==
    UNION {{JoinLines(ls) : ls \in [1..n -> ResponseLines]} : n \in 1..MaxLines}

InitParse ==
    /\ now = 0
    /\ checks = LoadedChecks
    /\ check_runs = NoRuns
    /\ check_state = NoState
    /\ exec_log = <<>>
    /\ batch = BatchIdle
    /\ sched = SchedIdle
    /\ retry = RetryIdle
    /\ \E response \in Responses :
          llm = [pc |-> "call", call |-> "_parse_llm_status",
                 response |-> response, result |-> ParsedOk]
    /\ notify = NotifyIdle
    /\ db = DbIdle
    /\ runner = RunnerIdle

ParseCall ==
    /\ llm.pc = "call"
    /\ llm.call = "_parse_llm_status"
    /\ llm' = [llm EXCEPT !.pc = "returned",
                          !.result = parse_llm_status(llm.response)]
    /\ UNCHANGED <<now, checks, check_runs, check_state, exec_log, batch, sched, retry, notify, db, runner>>

NextParse == ParseCall

SpecParse == InitParse /\ [][NextParse]_vars

\* the parser has returned
Parsed == llm.call = "_parse_llm_status" /\ llm.pc = "returned"

\* a line that carries a status marker with a recognised value
C13_Recognised(line) ==
    /\ StartsWith(Lower(Strip(line)), StatusPrefix)
    /\ \E v \in AlertValues \cup {OkWord} : StartsWith(StatusPart(line), v)

\* rule (b): the first word is ok, or the response begins "ok." or "ok\n"
C13_SingleWordOk(text) ==
    \/ FirstWord(Lower(text)) = OkWord
    \/ StartsWith(Lower(text), <<"o", "k", ".">>)
    \/ StartsWith(Lower(text), <<"o", "k", "\n">>)

\* rule (c): an all-clear phrase, and a first word without "alert" in it
C13_AllClear(text) ==
    /\ \E phrase \in ok_phrases : Contains(Lower(text), phrase)
    /\ ~Contains(FirstWord(Lower(text)), AlertWord)

(* C13: the first line, in line order, that carries a status marker with a  *)
(* recognised value decides the result: OK when the value begins ok, ALERT  *)
(* with the whole stripped response as message when it begins warning,      *)
(* alert, critical or error, whatever the response begins with or contains. *)
(* Only when no line carries such a marker do the single-word OK rule, the  *)
(* all-clear phrase rule and the default ALERT apply, in that order.        *)
C13_MarkerDecidesBeforeHeuristics ==
    Parsed =>
        LET text == Strip(llm.response)
            lines == SplitLines(text)
            marked == {i \in DOMAIN lines : C13_Recognised(lines[i])}
        IN  IF marked # {}
            THEN LET first == CHOOSE i \in marked : \A k \in marked : i <= k
                 IN  llm.result =
                        IF StartsWith(StatusPart(lines[first]), OkWord)
                        THEN ParsedOk
                        ELSE ParsedAlert(text)
            ELSE llm.result =
                    IF C13_SingleWordOk(text) THEN ParsedOk
                    ELSE IF C13_AllClear(text) THEN ParsedOk
                    ELSE ParsedAlert(text)

\* "OK" on the first line, "status: warning" on the second: ALERT
C13_Witness ==
    /\ Parsed
    /\ llm.response = <<"O", "K", "\n", "s", "t", "a", "t", "u", "s", ":", " ",
                        "w", "a", "r", "n", "i", "n", "g">>
    /\ llm.result = ParsedAlert(llm.response)

----------------------------------------------------------------------------
(* llm.py: OllamaClient.generate, analyze_output, _two_stage_analysis and   *)
(* analyze_error.  Model names and synthesized messages are texts made of   *)
(* whole pieces; model responses are texts made of characters.              *)

\* retry_on_error run to its end
RECURSIVE RetryRun(_)
RetryRun(rt) ==
    IF rt.pc # "loop" THEN rt
    ELSE IF rt.attempt <= rt.max_attempts THEN RetryRun(retry_iteration(rt))
    ELSE RetryRun(retry_exhausted(rt))

\* what the backend does with the requests of one generate call: the outcome
\* of each request and the "response" field of a usable 2xx body
Reply(script, body) == [script |-> script, body |-> body]

\* OllamaClient.generate: the stripped response, or what retry_on_error raises
generate(reply) ==
    LET r == Get(RetryRun(RetryCall("generate", reply.script, DefaultMaxRetries,
                                    ClientDelay, DefaultBackoff,
                                    {"LLMError"})).result)
    IN  IF r.kind = "return" THEN Return(Strip(reply.body)) ELSE r

\* every request of the call meets the same outcome
Always(outcome) == [i \in 1..DefaultMaxRetries |-> outcome]

\* the first request meets `outcome`, the later ones a usable 2xx reply
Once(outcome) ==
    [i \in 1..DefaultMaxRetries |-> IF i = 1 THEN outcome ELSE "2xx"]

TextOk == <<"O", "K">>

TextAlert ==
    <<" ", "A", "L", "E", "R", "T", ":", " ", "d", "i", "s", "k", " ", "f", "a",
      "i", "l", "i", "n", "g", "\n">>

TextAllGood == <<"a", "l", "l", " ", "g", "o", "o", "d">>

TextStatusOk ==
    <<"S", "T", "A", "T", "U", "S", ":", " ", "O", "K", "\n", "f", "i", "n", "e">>

\* the replies of the backend to a first call
Replies ==
    {Reply(Always("2xx"), body) :
        body \in {TextOk, TextAlert, TextAllGood, TextStatusOk, <<>>}}
    \cup {Reply(Once("5xx"), TextOk), Reply(Once("timeout"), TextAlert)}
    \cup {Reply(Always(outcome), <<>>) : outcome \in HttpOutcomes \ {"2xx"}}

\* the replies of the backend to the analysis call
AnalysisReplies ==
    {Reply(Always("2xx"), body) : body \in {TextOk, TextAlert}}
    \cup {Reply(Always(outcome), <<>>) : outcome \in HttpOutcomes \ {"2xx"}}

\* str(n)
IntText(n) == IF n < 0 THEN <<"-">> \o Decimal(0 - n) ELSE Decimal(n)

\* x or y, for an optional model name
OrElse(opt, other) == IF IsNone(opt) THEN other ELSE Get(opt)

\* the call client.generate(model, prompt): it is logged, and the monotonic
\* clock advances by the time it takes
Generated(c, model, prompt, reply, took) ==
    [c EXCEPT !.calls = Append(c.calls, [model |-> model, prompt |-> prompt,
                                         reply |-> reply, took |-> took]),
              !.clock = c.clock + took]

\* an exception that no handler of the function catches
Escapes(c, r) == [c EXCEPT !.pc = "raised", !.exc = r.exc]

\* `except LLMError as e` of analyze_output and _two_stage_analysis
llm_error_ignores_policy(c, model, e) ==
    [c EXCEPT !.pc = "returned",
              !.run = [c.run EXCEPT
                          !.llm_model = Some(<<model>>),
                          !.llm_response = Some(<<"LLM Error: ", e.value>>),
                          !.llm_duration_ms = Some(c.clock - c.start),
                          !.status = "error",
                          !.alert_message =
                              Some(<<"LLM analysis failed: ", e.value>>)]]

llm_error(c, model, e) ==
    LET recorded == [c.run EXCEPT
                        !.llm_model = Some(<<model>>),
                        !.llm_response = Some(<<"LLM Error: ", e.value>>),
                        !.llm_duration_ms = Some(c.clock - c.start)]
    IN  [c EXCEPT !.pc = "returned",
                  !.run = IF c.config.defaults.alert_on_llm_error
                          THEN [recorded EXCEPT
                                   !.status = "error",
                                   !.alert_message =
                                       Some(<<"LLM analysis failed: ", e.value>>)]
                          ELSE recorded]

\* analyze_output, single stage: the run after a successful call
single_stage_result_keeps_response(run, model, response, duration_ms) ==
    [run EXCEPT !.llm_model = Some(<<model>>),
                !.llm_response = Some(response),
                !.llm_duration_ms = Some(duration_ms),
                !.status = parse_llm_status(response).status,
                !.alert_message = Some(response)]

single_stage_result(run, model, response, duration_ms) ==
    [run EXCEPT !.llm_model = Some(<<model>>),
                !.llm_response = Some(response),
                !.llm_duration_ms = Some(duration_ms),
                !.status = parse_llm_status(response).status,
                !.alert_message = parse_llm_status(response).alert_message]

\* analyze_output when check.llm.triage_model is not set
analyze_single(c, reply, took) ==
    LET model == OrElse(c.check.llm.model, c.config.ollama.model)
        called == Generated([c EXCEPT !.start = c.clock], model, "build_prompt",
                            reply, took)
        r == generate(reply)
    IN  IF r.kind = "return"
        THEN [called EXCEPT
                 !.pc = "returned",
                 !.run = single_stage_result(c.run, model, r.value,
                                             called.clock - called.start)]
        ELSE IF r.exc = "LLMError" THEN llm_error(called, model, r)
        ELSE Escapes(called, r)

\* is_ok of _two_stage_analysis
triage_is_ok_never(triage_response) == FALSE

triage_is_ok(triage_response) ==
    parse_llm_status(triage_response).status = "ok"

\* the run finalized by the triage call alone
triage_ok_result(run, triage_model, triage_response, triage_duration) ==
    [run EXCEPT !.llm_model = Some(<<triage_model>>),
                !.llm_response = Some(triage_response),
                !.llm_duration_ms = Some(triage_duration),
                !.status = "ok"]

SkippedMessage == <<"Issue detected (detailed analysis skipped)">>

skip_analysis_never(check) == FALSE

skip_analysis(check) == check.llm.skip_analysis

skipped_result(run, triage_model, triage_response, triage_duration) ==
    [run EXCEPT !.llm_model = Some(<<triage_model>>),
                !.llm_response = Some(triage_response),
                !.llm_duration_ms = Some(triage_duration),
                !.status = "alert",
                !.alert_message = Some(SkippedMessage)]

\* _two_stage_analysis, stage 1
two_stage_triage(c, reply, took) ==
    LET triage_model == Get(c.check.llm.triage_model)
        called == Generated([c EXCEPT !.start = c.clock], triage_model,
                            "build_triage_prompt", reply, took)
        r == generate(reply)
        triage_duration == called.clock - called.start
    IN  IF r.kind = "return"
        THEN IF triage_is_ok(r.value)
             THEN [called EXCEPT
                      !.pc = "returned",
                      !.run = triage_ok_result(c.run, triage_model, r.value,
                                               triage_duration)]
             ELSE IF skip_analysis(c.check)
             THEN [called EXCEPT
                      !.pc = "returned",
                      !.run = skipped_result(c.run, triage_model, r.value,
                                             triage_duration)]
             ELSE [called EXCEPT
                      !.pc = "analysis",
                      !.triage = Some([response |-> r.value,
                                       duration |-> triage_duration])]
        ELSE IF r.exc = "LLMError" THEN llm_error(called, triage_model, r)
        ELSE Escapes(called, r)

\* the run finalized by the analysis call
analysis_result_last_duration(run, triage_model, analysis_model, analysis_response, triage_duration, analysis_duration) ==
    [run EXCEPT !.llm_model = Some(<<triage_model, "+", analysis_model>>),
                !.llm_response = Some(analysis_response),
                !.llm_duration_ms = Some(analysis_duration),
                !.status = "alert",
                !.alert_message = Some(analysis_response)]

analysis_result(run, triage_model, analysis_model, analysis_response, triage_duration, analysis_duration) ==
    [run EXCEPT !.llm_model = Some(<<triage_model, "+", analysis_model>>),
                !.llm_response = Some(analysis_response),
                !.llm_duration_ms = Some(triage_duration + analysis_duration),
                !.status = "alert",
                !.alert_message = Some(analysis_response)]

\* _two_stage_analysis, stage 2
two_stage_analysis(c, reply, took) ==
    LET triage_model == Get(c.check.llm.triage_model)
        analysis_model ==
            OrElse(c.check.llm.analysis_model,
                   OrElse(c.check.llm.model, c.config.ollama.model))
        analysis_start == c.clock
        called == Generated(c, analysis_model, "build_prompt", reply, took)
        r == generate(reply)
    IN  IF r.kind = "return"
        THEN [called EXCEPT
                 !.pc = "returned",
                 !.run = analysis_result(c.run, triage_model, analysis_model,
                                         r.value, Get(c.triage).duration,
                                         called.clock - analysis_start)]
        ELSE IF r.exc = "LLMError" THEN llm_error(called, triage_model, r)
        ELSE Escapes(called, r)

\* analyze_error: the run after a successful call
error_analysis_result_parsed(run, model, response, duration_ms) ==
    [run EXCEPT !.llm_model = Some(<<model>>),
                !.llm_response = Some(response),
                !.llm_duration_ms = Some(duration_ms),
                !.status = parse_llm_status(response).status,
                !.alert_message = parse_llm_status(response).alert_message]

error_analysis_result(run, model, response, duration_ms) ==
    [run EXCEPT !.llm_model = Some(<<model>>),
                !.llm_response = Some(response),
                !.llm_duration_ms = Some(duration_ms),
                !.status = "error",
                !.alert_message = Some(response)]

\* f"Command failed (exit {run.command_exit_code})"
CommandFailedText(exit_code) ==
    <<"Command failed (exit ">> \o IntText(exit_code) \o <<")">>

analyze_error(c, reply, took) ==
    LET model == OrElse(c.config.defaults.error_model,
                        OrElse(c.check.llm.model, c.config.ollama.model))
        called == Generated([c EXCEPT !.start = c.clock], model,
                            "build_error_prompt", reply, took)
        r == generate(reply)
        duration_ms == called.clock - called.start
    IN  IF r.kind = "return"
        THEN [called EXCEPT
                 !.pc = "returned",
                 !.run = error_analysis_result(c.run, model, r.value, duration_ms)]
        ELSE IF r.exc = "LLMError"
        THEN [called EXCEPT
                 !.pc = "returned",
                 !.run = [c.run EXCEPT
                             !.llm_model = Some(<<model>>),
                             !.llm_response = Some(<<"LLM Error: ", r.value>>),
                             !.llm_duration_ms = Some(duration_ms),
                             !.status = "error",
                             !.alert_message =
                                 Some(CommandFailedText(c.run.command_exit_code))]]
        ELSE Escapes(called, r)

\* models.py: Config, the fields the classifier reads
\* models.py: DefaultsConfig.default_history_context
DefaultHistoryContext == 3

Config(alert_on_llm_error, error_model) ==
    [ollama |-> [model |-> "qwen2.5:7b", timeout |-> 120],
     defaults |-> [alert_on_llm_error |-> alert_on_llm_error,
                   analyze_errors |-> TRUE, error_model |-> error_model,
                   default_history_context |-> DefaultHistoryContext]]

\* a check with the LLM settings of its definition
LlmCheck(model, triage_model, analysis_model, skip) ==
    [Check("disk", TRUE, "*/10 * * * *") EXCEPT
        !.llm.model = model, !.llm.triage_model = triage_model,
        !.llm.analysis_model = analysis_model, !.llm.skip_analysis = skip]

MaxDuration == 2

ClassifierCall(call, check, config, run) ==
    [pc |-> "call", call |-> call, check |-> check, config |-> config,
     run0 |-> run, run |-> run, calls |-> <<>>, clock |-> 0, start |-> 0,
     triage |-> None, exc |-> "none"]

\* the runs handed to analyze_output: exit code 0, and one failed run
OutputRuns(check) ==
    {run_check(check, 0, outcome) :
        outcome \in {o \in CommandOutcomes : o.kind = "exit" /\ o.code = 0}
                    \cup {[kind |-> "exit", code |-> 1, stdout |-> <<"n", "o">>]}}

\* the runs handed to analyze_error: the command failed
ErrorRuns(check) ==
    {run_check(check, 0, outcome) :
        outcome \in {o \in CommandOutcomes :
                        /\ ~(o.kind = "exit" /\ o.code = 0)
                        /\ o.kind # "timeout_bad_bytes"}}

ClassifierCalls ==
    {ClassifierCall("analyze_output", check, Config(flag, None), run) :
        check \in {LlmCheck(m, t, a, skip) :
                      m \in {None, Some("llama")}, t \in {None, Some("tiny")},
                      a \in {None, Some("deep")}, skip \in BOOLEAN},
        flag \in BOOLEAN,
        run \in OutputRuns(LlmCheck(None, None, None, FALSE))}
    \cup
    {ClassifierCall("analyze_error", LlmCheck(m, None, None, FALSE),
                    Config(flag, e), run) :
        m \in {None, Some("llama")}, e \in {None, Some("fixer")},
        flag \in BOOLEAN,
        run \in ErrorRuns(LlmCheck(None, None, None, FALSE))}

InitClassify ==
    /\ now = 0
    /\ checks = LoadedChecks
    /\ check_runs = NoRuns
    /\ check_state = NoState
    /\ exec_log = <<>>
    /\ batch = BatchIdle
    /\ sched = SchedIdle
    /\ retry = RetryIdle
    /\ llm \in ClassifierCalls
    /\ notify = NotifyIdle
    /\ db = DbIdle
    /\ runner = RunnerIdle

AnalyzeSingle ==
    /\ llm.pc = "call"
    /\ llm.call = "analyze_output"
    /\ IsNone(llm.check.llm.triage_model)
    /\ \E reply \in Replies, took \in 1..MaxDuration :
          llm' = analyze_single(llm, reply, took)
    /\ UNCHANGED <<now, checks, check_runs, check_state, exec_log, batch, sched, retry, notify, db, runner>>

TwoStageTriage ==
    /\ llm.pc = "call"
    /\ llm.call = "analyze_output"
    /\ ~IsNone(llm.check.llm.triage_model)
    /\ \E reply \in Replies, took \in 1..MaxDuration :
          llm' = two_stage_triage(llm, reply, took)
    /\ UNCHANGED <<now, checks, check_runs, check_state, exec_log, batch, sched, retry, notify, db, runner>>

TwoStageAnalysis ==
    /\ llm.pc = "analysis"
    /\ \E reply \in AnalysisReplies, took \in 1..MaxDuration :
          llm' = two_stage_analysis(llm, reply, took)
    /\ UNCHANGED <<now, checks, check_runs, check_state, exec_log, batch, sched, retry, notify, db, runner>>

AnalyzeError ==
    /\ llm.pc = "call"
    /\ llm.call = "analyze_error"
    /\ \E reply \in Replies, took \in 1..MaxDuration :
          llm' = analyze_error(llm, reply, took)
    /\ UNCHANGED <<now, checks, check_runs, check_state, exec_log, batch, sched, retry, notify, db, runner>>

NextClassify ==
    \/ AnalyzeSingle
    \/ TwoStageTriage
    \/ TwoStageAnalysis
    \/ AnalyzeError

SpecClassify == InitClassify /\ [][NextClassify]_vars

\* the classifier call is over
ClassifierEnded == llm.pc \in {"returned", "raised"}

\* what the k-th generate call of the classifier gave
Generate(k) == generate(llm.calls[k].reply)

SingleStage == llm.call = "analyze_output" /\ IsNone(llm.check.llm.triage_model)

TwoStage == llm.call = "analyze_output" /\ ~IsNone(llm.check.llm.triage_model)

\* two-stage mode, and the triage call has returned a response
Triaged ==
    /\ TwoStage
    /\ Len(llm.calls) >= 1
    /\ Generate(1).kind = "return"

----------------------------------------------------------------------------
(* C14: single-stage classification with a successful model call yields OK  *)
(* or ALERT, never ERROR: with OK the alert_message is None, with ALERT it  *)
(* is exactly the stripped model response; llm_model, llm_response and      *)
(* llm_duration_ms are recorded in both cases.                              *)
C14_SingleStageOkOrAlert ==
    (/\ SingleStage
     /\ Len(llm.calls) >= 1
     /\ Generate(1).kind = "return")
    => LET response == Strip(llm.calls[1].reply.body)
       IN  /\ llm.pc = "returned"
           /\ llm.run.status \in {"ok", "alert"}
           /\ llm.run.status = "ok" => llm.run.alert_message = None
           /\ llm.run.status = "alert" => llm.run.alert_message = Some(response)
           /\ llm.run.llm_model = Some(<<llm.calls[1].model>>)
           /\ llm.run.llm_response = Some(response)
           /\ llm.run.llm_duration_ms = Some(llm.calls[1].took)

\* the model answers " ALERT: disk failing\n" and the run says "ok"
C14_Witness ==
    /\ SingleStage
    /\ llm.pc = "returned"
    /\ llm.calls[1].reply = Reply(Always("2xx"), TextAlert)
    /\ llm.run0.status = "ok"
    /\ llm.run.status = "alert"
    /\ llm.run.alert_message = Some(Strip(TextAlert))

(* C15: in two-stage mode, when the triage response parses to OK, exactly   *)
(* one generate call is made: the analysis model is never called, the run   *)
(* is finalized with status OK, and llm_model, llm_response and             *)
(* llm_duration_ms are those of the triage call.                            *)
C15_TriageOkMakesOneCall ==
    (/\ Triaged
     /\ parse_llm_status(Generate(1).value).status = "ok")
    => /\ llm.pc = "returned"
       /\ Len(llm.calls) = 1
       /\ llm.calls[1].model = Get(llm.check.llm.triage_model)
       /\ llm.run.status = "ok"
       /\ llm.run.llm_model = Some(<<Get(llm.check.llm.triage_model)>>)
       /\ llm.run.llm_response = Some(Generate(1).value)
       /\ llm.run.llm_duration_ms = Some(llm.calls[1].took)

\* the triage model answers "all good" about a check that has an analysis model
C15_Witness ==
    /\ Triaged
    /\ llm.pc = "returned"
    /\ llm.calls[1].reply = Reply(Always("2xx"), TextAllGood)
    /\ ~IsNone(llm.check.llm.analysis_model)
    /\ ~llm.check.llm.skip_analysis
    /\ Len(llm.calls) = 1
    /\ llm.run.status = "ok"

(* C16: in two-stage mode, when the triage response does not parse to OK    *)
(* and skip_analysis is false, a second generate call follows the triage    *)
(* call and no third is made: triage model first, analysis model second.    *)
(* When the second call succeeds too, the status is ALERT, alert_message is *)
(* the analysis response as returned, llm_duration_ms is the sum of both    *)
(* durations and llm_model is both model names joined by "+".               *)
C16_TriageAlertMakesTwoCalls ==
    (/\ Triaged
     /\ parse_llm_status(Generate(1).value).status # "ok"
     /\ ~llm.check.llm.skip_analysis)
    => LET triage_model == Get(llm.check.llm.triage_model)
           analysis_model ==
               OrElse(llm.check.llm.analysis_model,
                      OrElse(llm.check.llm.model, llm.config.ollama.model))
       IN  /\ llm.calls[1].model = triage_model
           /\ llm.calls[1].prompt = "build_triage_prompt"
           /\ \/ llm.pc = "analysis" /\ Len(llm.calls) = 1
              \/ /\ ClassifierEnded
                 /\ Len(llm.calls) = 2
                 /\ llm.calls[2].model = analysis_model
                 /\ llm.calls[2].prompt = "build_prompt"
                 /\ Generate(2).kind = "return" =>
                       /\ llm.pc = "returned"
                       /\ llm.run.status = "alert"
                       /\ llm.run.alert_message = Some(Generate(2).value)
                       /\ llm.run.llm_response = Some(Generate(2).value)
                       /\ llm.run.llm_duration_ms =
                             Some(llm.calls[1].took + llm.calls[2].took)
                       /\ llm.run.llm_model =
                             Some(<<triage_model, "+", analysis_model>>)

\* triage takes 1 and finds an issue, the analysis takes 2 and answers "OK"
C16_Witness ==
    /\ Triaged
    /\ llm.pc = "returned"
    /\ Len(llm.calls) = 2
    /\ llm.calls[1].took = 1
    /\ llm.calls[2].took = 2
    /\ llm.calls[2].reply = Reply(Always("2xx"), TextOk)
    /\ llm.run.status = "alert"
    /\ llm.run.alert_message = Some(TextOk)
    /\ llm.run.llm_duration_ms = Some(3)
    /\ llm.run.llm_model = Some(<<"tiny", "+", "deep">>)

(* C17: in two-stage mode, when the triage response does not parse to OK    *)
(* and skip_analysis is set, the run is finalized ALERT with the fixed      *)
(* placeholder message and no second generate call is made; llm_model and   *)
(* llm_response are those of the triage call.                               *)
C17_SkipAnalysisMakesOneCall ==
    (/\ Triaged
     /\ parse_llm_status(Generate(1).value).status # "ok"
     /\ llm.check.llm.skip_analysis)
    => /\ llm.pc = "returned"
       /\ Len(llm.calls) = 1
       /\ llm.run.status = "alert"
       /\ llm.run.alert_message = Some(SkippedMessage)
       /\ llm.run.llm_model = Some(<<Get(llm.check.llm.triage_model)>>)
       /\ llm.run.llm_response = Some(Generate(1).value)

\* the triage model reports a failing disk and the analysis is skipped
C17_Witness ==
    /\ Triaged
    /\ llm.check.llm.skip_analysis
    /\ llm.calls[1].reply = Reply(Always("2xx"), TextAlert)
    /\ llm.pc = "returned"
    /\ Len(llm.calls) = 1
    /\ llm.run.alert_message = Some(SkippedMessage)

(* C18: analyze_error asks the configured error model, else the check's    *)
(* model, else the default model, and leaves the run with status ERROR and  *)
(* an alert_message that is not None, whatever the model answers ("OK"      *)
(* included: the answer becomes the message) and also when the call fails   *)
(* after its retries, whether alert_on_llm_error is set or not.             *)
C18_ErrorAnalysisIsAlwaysError ==
    (/\ llm.call = "analyze_error"
     /\ Len(llm.calls) >= 1)
    => /\ llm.calls[1].model =
             OrElse(llm.config.defaults.error_model,
                    OrElse(llm.check.llm.model, llm.config.ollama.model))
       /\ (Generate(1).kind = "return" \/ Generate(1).exc = "LLMError") =>
             /\ llm.pc = "returned"
             /\ Len(llm.calls) = 1
             /\ llm.run.status = "error"
             /\ ~IsNone(llm.run.alert_message)
             /\ Generate(1).kind = "return" =>
                   llm.run.alert_message = Some(Generate(1).value)

\* the model answers "OK" about a failed command, alert_on_llm_error is off
C18_Witness ==
    /\ llm.call = "analyze_error"
    /\ llm.pc = "returned"
    /\ ~llm.config.defaults.alert_on_llm_error
    /\ llm.calls[1].reply = Reply(Always("2xx"), TextOk)
    /\ llm.run.status = "error"
    /\ llm.run.alert_message = Some(TextOk)

(* C19: when a generate call of analyze_output fails with LLMError after    *)
(* its retries, in single-stage or in two-stage mode, llm_response is the   *)
(* synthesized "LLM Error: ..." text; with alert_on_llm_error the status    *)
(* becomes ERROR and alert_message the synthesized "LLM analysis failed:    *)
(* ..." text, and without it status and alert_message are left as they     *)
(* were before the classification.                                          *)
C19_LlmFailureIsPolicyGated ==
    (/\ llm.call = "analyze_output"
     /\ ClassifierEnded
     /\ Generate(Len(llm.calls)).kind = "raise"
     /\ Generate(Len(llm.calls)).exc = "LLMError")
    => LET e == Generate(Len(llm.calls))
       IN  /\ llm.pc = "returned"
           /\ llm.run.llm_response = Some(<<"LLM Error: ", e.value>>)
           /\ IF llm.config.defaults.alert_on_llm_error
              THEN /\ llm.run.status = "error"
                   /\ llm.run.alert_message =
                         Some(<<"LLM analysis failed: ", e.value>>)
              ELSE /\ llm.run.status = llm.run0.status
                   /\ llm.run.alert_message = llm.run0.alert_message

\* the triage finds an issue, the analysis call fails with 5xx, and with
\* alert_on_llm_error off the run keeps its status "ok"
C19_Witness ==
    /\ TwoStage
    /\ llm.pc = "returned"
    /\ Len(llm.calls) = 2
    /\ llm.calls[2].reply = Reply(Always("5xx"), <<>>)
    /\ ~llm.config.defaults.alert_on_llm_error
    /\ llm.run0.status = "ok"
    /\ llm.run.status = "ok"
    /\ llm.run.alert_message = None
    /\ llm.run.llm_response = Some(<<"LLM Error: ", "LLM server error">>)

(* C20 as stated: analyze_output and analyze_error are total: whatever the  *)
(* backend answers (success, timeout, connection error, 4xx, 5xx, a 2xx     *)
(* reply whose body is not JSON or has no string response), they return the *)
(* run and never raise to their caller.                                     *)
C20_ClassifiersNeverRaise ==
    llm.call \in {"analyze_output", "analyze_error"} => llm.pc # "raised"

----------------------------------------------------------------------------
(* notify.py: NtfyClient.send and send_alert. *)

\* NtfyClient.send: retry_on_error over _do_send, run to its end
send(script, max_retries) ==
    RetryRun(RetryCall("send", script, max_retries, ClientDelay, DefaultBackoff,
                       {"NotifyError"}))

\* x or y or z, for optional texts: None and the empty text are false
TextOr(opt, other) ==
    IF IsNone(opt) \/ Get(opt) = <<>> THEN other ELSE Get(opt)

\* the notification send_alert builds from a run
AlertRequest(run, tags, priority) ==
    [title |-> <<"Ampelmann: ", run.check_name>>,
     message |-> TextOr(run.alert_message,
                        TextOr(run.llm_response, <<"Alert triggered">>)),
     priority |-> priority,
     tags |-> IF run.status = "alert" THEN <<"warning">> \o tags
              ELSE IF run.status = "error" THEN <<"x">> \o tags
              ELSE tags]

\* send_alert without its handler
send_alert_propagates(run, tags, priority, script, max_retries) ==
    LET r == Get(send(script, max_retries).result)
    IN  IF r.kind = "return" THEN Return(TRUE) ELSE r

\* send_alert: True, False after NotifyError, or the exception it lets through
send_alert(run, tags, priority, script, max_retries) ==
    LET r == Get(send(script, max_retries).result)
    IN  IF r.kind = "return" THEN Return(TRUE)
        ELSE IF r.exc = "NotifyError" THEN Return(FALSE)
        ELSE r

\* runs as the classification leaves them
ClassifiedRuns ==
    LET run == run_check(Check("disk", TRUE, "*/10 * * * *"), 0,
                         [kind |-> "exit", code |-> 1, stdout |-> <<"n", "o">>])
    IN  {[run EXCEPT !.status = "alert", !.alert_message = Some(Strip(TextAlert)),
                     !.llm_response = Some(Strip(TextAlert))],
         [run EXCEPT !.status = "alert", !.alert_message = Some(<<>>),
                     !.llm_response = Some(<<>>)],
         [run EXCEPT !.status = "error", !.alert_message = None,
                     !.llm_response = Some(<<"LLM Error: ", "LLM server error">>)],
         [run EXCEPT !.status = "ok"]}

NotifyCalls ==
    UNION {{[pc |-> "call", run |-> run, tags |-> tags, priority |-> priority,
             script |-> script, max_retries |-> n, requests |-> 0,
             request |-> None, result |-> Return(FALSE)] :
               run \in ClassifiedRuns, tags \in {<<>>, <<"disk">>},
               priority \in {"default", "high"},
               script \in [1..n -> HttpOutcomes]} : n \in 1..DefaultMaxRetries}

InitNotify ==
    /\ now = 0
    /\ checks = LoadedChecks
    /\ check_runs = NoRuns
    /\ check_state = NoState
    /\ exec_log = <<>>
    /\ batch = BatchIdle
    /\ sched = SchedIdle
    /\ retry = RetryIdle
    /\ llm = LlmIdle
    /\ notify \in NotifyCalls
    /\ db = DbIdle
    /\ runner = RunnerIdle

SendAlertCall ==
    /\ notify.pc = "call"
    /\ LET r == send_alert(notify.run, notify.tags, notify.priority,
                           notify.script, notify.max_retries)
       IN  notify' =
             [notify EXCEPT
                 !.pc = IF r.kind = "return" THEN "returned" ELSE "raised",
                 !.requests = send(notify.script, notify.max_retries).calls,
                 !.request = Some(AlertRequest(notify.run, notify.tags,
                                               notify.priority)),
                 !.result = r]
    /\ UNCHANGED <<now, checks, check_runs, check_state, exec_log, batch, sched, retry, llm, db, runner>>

NextNotify == SendAlertCall

SpecNotify == InitNotify /\ [][NextNotify]_vars

\* the outcomes of a request that _do_send takes for a delivery
Delivered == {"2xx", "2xx_bad_json", "2xx_no_string"}

(* C21: send_alert never raises: whatever the requests meet (2xx, 4xx, 5xx, *)
(* a connection failure, a timeout, another failure of the request) it      *)
(* returns True iff one of the requests it made succeeded, and False once   *)
(* all max_retries requests have failed.                                    *)
C21_SendAlertNeverRaises ==
    notify.pc \notin {"idle", "call"} =>
        /\ notify.pc = "returned"
        /\ notify.result.kind = "return"
        /\ notify.result.value =
              (\E k \in 1..notify.max_retries : notify.script[k] \in Delivered)
        /\ notify.result.value =>
              /\ notify.script[notify.requests] \in Delivered
              /\ \A k \in 1..(notify.requests - 1) :
                    notify.script[k] \notin Delivered
        /\ ~notify.result.value => notify.requests = notify.max_retries

\* three requests, three connection failures: False
C21_Witness ==
    /\ notify.pc = "returned"
    /\ notify.script = <<"connect_error", "connect_error", "connect_error">>
    /\ notify.requests = 3
    /\ notify.result = Return(FALSE)

----------------------------------------------------------------------------
(* cli.py: the body of the loop of `run` from line 153 on, for check         *)
(* definitions that carry the field `use_llm` which lines 153 and 461 read   *)
(* and which the check files of the tests set (test_cli.py:63).  The field   *)
(* says whether the classifier is enabled for the check.                     *)

\* a check definition with the field use_llm
WithUseLlm(check, flag) == check @@ [use_llm |-> flag]

\* check.use_llm
use_llm(check) == check.use_llm

\* analyze_output as a whole: single stage, or triage and then analysis
classify_output(check, run, config, replies, tooks) ==
    LET c == ClassifierCall("analyze_output", check, config, run)
    IN  IF IsNone(check.llm.triage_model)
        THEN analyze_single(c, replies[1], tooks[1])
        ELSE LET t == two_stage_triage(c, replies[1], tooks[1])
             IN  IF t.pc = "analysis"
                 THEN two_stage_analysis(t, replies[2], tooks[2])
                 ELSE t

\* analyze_error as a whole
classify_error(check, run, config, replies, tooks) ==
    analyze_error(ClassifierCall("analyze_error", check, config, run),
                  replies[1], tooks[1])

\* f"Check failed (exit {check_run.command_exit_code})"
CheckFailedText(exit_code) ==
    <<"Check failed (exit ">> \o IntText(exit_code) \o <<")">>

\* the exit-code logic without its message
exit_code_status_without_message(run) ==
    [run EXCEPT !.status = IF run.command_exit_code = 0 THEN "ok" ELSE "alert"]

\* lines 183-190: the status of a check without classifier
exit_code_status(run) ==
    IF run.command_exit_code = 0 THEN [run EXCEPT !.status = "ok"]
    ELSE [run EXCEPT
             !.status = "alert",
             !.alert_message =
                 Some(IF run.command_output # <<>> THEN run.command_output
                      ELSE CheckFailedText(run.command_exit_code))]

\* lines 170-172: a failed command whose error is not analysed
unanalysed_error(run) ==
    [run EXCEPT !.status = "error",
                !.alert_message = Some(CommandFailedText(run.command_exit_code))]

\* a classifier call that was not made, with the run it would have got
NoClassifier(run) == [pc |-> "returned", call |-> "none", run |-> run, calls |-> <<>>]

\* lines 153-190: the classifier call of the check, or the run as the exit
\* code decides it
classification(check, run, config, replies, tooks) ==
    IF use_llm(check)
    THEN IF run.command_exit_code = 0
         THEN classify_output(check, run, config, replies, tooks)
         ELSE IF config.defaults.analyze_errors
         THEN classify_error(check, run, config, replies, tooks)
         ELSE NoClassifier(unanalysed_error(run))
    ELSE NoClassifier(exit_code_status(run))

\* db.save_run: the row gets the next free id
NextRowId(runs) ==
    IF runs = <<>> THEN 1
    ELSE 1 + CHOOSE m \in {Get(runs[i].id) : i \in DOMAIN runs} :
                 \A i \in DOMAIN runs : Get(runs[i].id) <= m

\* save_run that stores nothing
save_run_discards(runs, run) == runs

\* db.save_run: the INSERT; SQLite stores the boolean alert_sent as 0 or 1
save_run(runs, run) ==
    Append(runs, [run EXCEPT !.id = Some(NextRowId(runs)),
                             !.alert_sent = IF run.alert_sent THEN 1 ELSE 0])

\* db._row_to_run: alert_sent=bool(row["alert_sent"])
row_to_run(row) == [row EXCEPT !.alert_sent = (row.alert_sent # 0)]

\* the rows a query selects: a filter applies when its argument is truthy
Matching(runs, check_name, status, since) ==
    {i \in DOMAIN runs :
        /\ (IsNone(check_name) \/ Get(check_name) = "" \/
            runs[i].check_name = Get(check_name))
        /\ (IsNone(status) \/ runs[i].status = Get(status))
        /\ (IsNone(since) \/ runs[i].run_at >= Get(since))}

\* LIMIT n: at most n rows, and every row for a negative n
Limited(limit, count) ==
    IF limit < 0 \/ limit > count THEN count ELSE limit

\* a query that returns the rows in insertion order
get_runs_insertion_order(runs, check_name, status, since, limit) ==
    LET M == Matching(runs, check_name, status, since)
        n == Limited(limit, Cardinality(M))
        RECURSIVE first(_, _)
        first(k, i) ==
            IF k = 0 THEN <<>>
            ELSE IF i \in M THEN <<row_to_run(runs[i])>> \o first(k - 1, i + 1)
            ELSE first(k, i + 1)
    IN  {first(n, 1)}

\* db.get_runs: the lists SELECT ... ORDER BY run_at DESC LIMIT ? may return;
\* the order of rows with equal run_at is not determined
get_runs(runs, check_name, status, since, limit) ==
    LET M == Matching(runs, check_name, status, since)
        n == Limited(limit, Cardinality(M))
        picks == {f \in [1..n -> M] :
                    /\ \A j, k \in 1..n : j < k =>
                          /\ f[j] # f[k]
                          /\ runs[f[j]].run_at >= runs[f[k]].run_at
                    /\ \A i \in M : (\A k \in 1..n : f[k] # i) =>
                          \A k \in 1..n : runs[i].run_at <= runs[f[k]].run_at}
    IN  {[k \in 1..n |-> row_to_run(runs[f[k]])] : f \in picks}

\* db.get_latest_run: runs[0] if runs else None
get_latest_run(runs, check_name) ==
    {IF r = <<>> THEN None ELSE Some(r[1]) :
        r \in get_runs(runs, Some(check_name), None, None, 1)}

\* llm.py:140: the characters of a previous output that enter the prompt
HistoryBudget == 1000

\* cli.py 156-158: the number of previous runs to give to the classifier
history_count(check, config) ==
    IF IsNone(check.llm.history_context)
    THEN config.defaults.default_history_context
    ELSE Get(check.llm.history_context)

\* cli.py 155-160: the histories the loop may fetch, None when it fetches none
fetch_history(check, config, runs) ==
    IF history_count(check, config) > 0
    THEN {Some(h) : h \in get_runs(runs, Some(check.name), None, None,
                                   history_count(check, config))}
    ELSE {None}

\* "\n... (truncated)"
TruncatedNote ==
    <<"\n", ".", ".", ".", " ", "(", "t", "r", "u", "n", "c", "a", "t", "e", "d", ")">>

\* a history block that repeats what the model said before
history_entry_with_response(run) ==
    <<[kind |-> "timestamp", at |-> run.run_at, text |-> <<>>]>>
    \o IF IsNone(run.llm_response) THEN <<>>
       ELSE <<[kind |-> "output", at |-> run.run_at, text |-> Get(run.llm_response)]>>

\* llm.py 135-143: the lines format_history adds for one run
history_entry(run) ==
    <<[kind |-> "timestamp", at |-> run.run_at, text |-> <<>>]>>
    \o IF run.command_output = <<>> THEN <<>>
       ELSE <<[kind |-> "output", at |-> run.run_at,
               text |-> IF Len(run.command_output) > HistoryBudget
                        THEN SubSeq(run.command_output, 1, HistoryBudget)
                             \o TruncatedNote
                        ELSE run.command_output]>>

RECURSIVE history_entries(_)
history_entries(history) ==
    IF history = <<>> THEN <<>>
    ELSE history_entry(history[1]) \o history_entries(Tail(history))

\* llm.format_history: the lines of the block, none for an empty history
format_history(history) ==
    IF history = <<>> THEN <<>>
    ELSE <<[kind |-> "header", at |-> 0, text |-> <<>>]>>
         \o history_entries(history)
         \o <<[kind |-> "footer", at |-> 0, text |-> <<>>]>>

\* build_prompt: format_history(history) if history else ""
history_section(history) ==
    IF IsNone(history) THEN <<>> ELSE format_history(Get(history))

\* a state that forgets the status
CheckState_without_status(check_name, last_run_at, last_status, config_hash) ==
    [check_name |-> check_name, last_run_at |-> last_run_at,
     last_status |-> None, config_hash |-> config_hash]

\* models.py: CheckState
CheckState(check_name, last_run_at, last_status, config_hash) ==
    [check_name |-> check_name, last_run_at |-> last_run_at,
     last_status |-> last_status, config_hash |-> config_hash]

\* db.update_state: INSERT OR REPLACE of the row of state.check_name
\* an upsert that keeps the config_hash of the earlier row when the new one is null
update_state_merges(states, state) ==
    [states EXCEPT ![state.check_name] =
        IF IsNone(states[state.check_name]) \/ ~IsNone(state.config_hash)
        THEN Some(state)
        ELSE Some([state EXCEPT
                      !.config_hash = Get(states[state.check_name]).config_hash])]

update_state(states, state) ==
    [states EXCEPT ![state.check_name] = Some(state)]

\* the check definitions of the loop: without classifier, single-stage,
\* two-stage, two-stage without analysis
BodyChecks(name) ==
    {[WithUseLlm(LlmCheck(None, t, None, skip), flag) EXCEPT !.name = name] :
        <<flag, t, skip>> \in {<<FALSE, None, FALSE>>, <<TRUE, None, FALSE>>,
                               <<TRUE, Some("tiny"), FALSE>>,
                               <<TRUE, Some("tiny"), TRUE>>}}

\* the due lists the loop is entered with
DueLists ==
    {<<c>> : c \in BodyChecks("disk")}
    \cup {<<c, d>> \in BodyChecks("disk") \X BodyChecks("raid") :
             /\ c.use_llm # d.use_llm
             /\ c.llm.skip_analysis = d.llm.skip_analysis}

\* the configurations `run` has loaded
BodyConfigs ==
    {[Config(flag, None) EXCEPT !.defaults.analyze_errors = analyze] :
        flag \in BOOLEAN, analyze \in BOOLEAN}

\* what the commands of the loop do
BodyOutcomes ==
    {[kind |-> "exit", code |-> 0, stdout |-> <<"o", "k">>],
     [kind |-> "exit", code |-> 1, stdout |-> <<"n", "o">>],
     [kind |-> "exit", code |-> 1, stdout |-> <<>>],
     [kind |-> "timeout_bad_bytes", code |-> 0, stdout |-> <<>>]}

\* what the LLM backend answers in the loop
BodyReplies ==
    {Reply(Always("2xx"), TextOk), Reply(Always("2xx"), TextAlert),
     Reply(Always("5xx"), <<>>), Reply(Always("2xx_bad_json"), <<>>)}

\* what the notification backend answers in the loop
BodyScripts == {Always("2xx"), Once("5xx"), Always("5xx")}

\* `run` at line 133, called with --all and with or without --no-notify
InitBody ==
    /\ now = 0
    /\ \E due \in DueLists, no_notify \in BOOLEAN, config \in BodyConfigs :
          /\ checks = due
          /\ batch = [pc |-> "loop", n |-> 1,
                      opts |-> Some([run_all |-> TRUE, force |-> FALSE,
                                     dry_run |-> FALSE, no_notify |-> no_notify,
                                     check_name |-> None]),
                      due_checks |-> due, idx |-> 1, check_run |-> None,
                      started |-> <<>>, exit |-> "none", config |-> config]
    /\ check_runs = NoRuns
    /\ check_state = NoState
    /\ exec_log = <<>>
    /\ sched = SchedIdle
    /\ retry = RetryIdle
    /\ llm = LlmIdle
    /\ notify = NotifyIdle
    /\ db = DbIdle
    /\ runner = RunnerIdle

\* the invocation ends: by an exception, by a signal, or at the end of the loop
Ended(why) ==
    [batch EXCEPT !.pc = "idle", !.opts = None, !.check_run = None, !.exit = why]

\* lines 153-190
ClassifyStep ==
    /\ batch.pc = "executed"
    /\ HasAttr(current_check(batch), "use_llm")
    /\ \E replies \in BodyReplies \X BodyReplies,
          history \in IF use_llm(current_check(batch))
                      THEN fetch_history(current_check(batch), batch.config,
                                         check_runs)
                      ELSE {None} :
          LET c == classification(current_check(batch),
                                  Get(batch.check_run), batch.config, replies,
                                  <<1, MaxDuration>>)
          IN  /\ llm' = [history |-> history,
                         history_section |-> history_section(history)] @@ c
              /\ batch' = IF c.pc = "raised" THEN Ended(c.exc)
                          ELSE [batch EXCEPT !.pc = "classified",
                                             !.check_run = Some(c.run)]
    /\ notify' = NotifyIdle
    /\ UNCHANGED <<now, checks, check_runs, check_state, exec_log, sched, retry, db, runner>>

\* line 197: whether the run is to be notified
wants_alert_ignores_option(run, no_notify) == run.status \in {"alert", "error"}

wants_alert(run, no_notify) == run.status \in {"alert", "error"} /\ ~no_notify

\* line 199: the outcome of send_alert is recorded in the run
alert_recorded_as_status(run, sent) ==
    [run EXCEPT !.alert_sent = sent,
                !.status = IF sent THEN run.status ELSE "error"]

alert_recorded(run, sent) == [run EXCEPT !.alert_sent = sent]

\* lines 197-206
NotifyStep ==
    /\ batch.pc = "classified"
    /\ LET run == Get(batch.check_run)
           check == current_check(batch)
       IN  IF wants_alert(run, Get(batch.opts).no_notify)
           THEN \E script \in BodyScripts :
                   LET r == send_alert(run, check.notify.tags, check.notify.priority,
                                       script, DefaultMaxRetries)
                   IN  /\ notify' =
                            [pc |-> "returned", run |-> run,
                             tags |-> check.notify.tags,
                             priority |-> check.notify.priority, script |-> script,
                             max_retries |-> DefaultMaxRetries,
                             requests |-> send(script, DefaultMaxRetries).calls,
                             request |-> Some(AlertRequest(run, check.notify.tags,
                                                           check.notify.priority)),
                             result |-> r]
                       /\ batch' = [batch EXCEPT
                                       !.pc = "notified",
                                       !.check_run = Some(alert_recorded(run, r.value))]
           ELSE /\ notify' = NotifyIdle
                /\ batch' = [batch EXCEPT !.pc = "notified"]
    /\ UNCHANGED <<now, checks, check_runs, check_state, exec_log, sched, retry, llm, db, runner>>

\* line 209
SaveRunStep ==
    /\ batch.pc = "notified"
    /\ check_runs' = save_run(check_runs, Get(batch.check_run))
    /\ batch' = [batch EXCEPT !.pc = "saved"]
    /\ UNCHANGED <<now, checks, check_state, exec_log, sched, retry, llm, notify, db, runner>>

\* the state row is written and the loop stays at the same check
UpdateStateStep_stays ==
    /\ batch.pc = "saved"
    /\ LET run == Get(batch.check_run)
       IN  check_state' =
              update_state(check_state,
                           CheckState(current_check(batch).name,
                                      Some(run.run_at), Some(run.status), None))
    /\ UNCHANGED <<now, checks, check_runs, exec_log, sched, retry, llm, notify, db, runner, batch>>

\* lines 210-216: the state row is written and the loop goes on
UpdateStateStep ==
    /\ batch.pc = "saved"
    /\ LET run == Get(batch.check_run)
       IN  check_state' =
              update_state(check_state,
                           CheckState(current_check(batch).name,
                                      Some(run.run_at), Some(run.status), None))
    /\ batch' = IF batch.idx = Len(batch.due_checks)
                THEN [Ended("completed") EXCEPT !.idx = batch.idx + 1]
                ELSE [batch EXCEPT !.pc = "loop", !.idx = batch.idx + 1,
                                   !.check_run = None]
    /\ UNCHANGED <<now, checks, check_runs, exec_log, sched, retry, llm, notify, db, runner>>

\* the process is killed, or the machine goes down, between two steps
Kill ==
    /\ batch.pc # "idle"
    /\ batch' = Ended("killed")
    /\ UNCHANGED <<now, checks, check_runs, check_state, exec_log, sched, retry, llm, notify, db, runner>>

NextBody ==
    \/ \E outcome \in BodyOutcomes : RunCheckStep(outcome)
    \/ ClassifyStep
    \/ NotifyStep
    \/ SaveRunStep
    \/ UpdateStateStep
    \/ Kill

SpecBody == InitBody /\ [][NextBody]_vars

\* the run the loop has saved last
SavedRun == row_to_run(check_runs[Len(check_runs)])

NotificationAttempted == notify.pc # "idle" /\ notify.requests > 0

----------------------------------------------------------------------------
(* runner.py called directly: run_command, run_check and truncate_output. *)

MaxOutput == 6
MaxChars == 7

\* the outputs handed to truncate_output: "", "a", "ab", ... of distinct characters
Outputs ==
    {SubSeq(<<"a", "b", "c", "d", "e", "f", "g", "h", "i", "j">>, 1, n) :
        n \in 0..MaxOutput}

RunnerCall(fn, check, outcome, output, max_chars) ==
    [pc |-> "call", fn |-> fn, check |-> check, outcome |-> outcome,
     output |-> output, max_chars |-> max_chars, result |-> Return(<<>>)]

RunnerCalls ==
    {RunnerCall(fn, [Check("disk", TRUE, "*/10 * * * *") EXCEPT !.timeout = timeout],
                outcome, <<>>, 0) :
        fn \in {"run_command", "run_check"}, timeout \in {1, 30},
        outcome \in CommandOutcomes}
    \cup {RunnerCall("truncate_output", Check("disk", TRUE, "*/10 * * * *"),
                     [kind |-> "exit", code |-> 0, stdout |-> <<>>], output, m) :
            output \in Outputs, m \in 0..MaxChars}

InitRunner ==
    /\ now = 0
    /\ checks = LoadedChecks
    /\ check_runs = NoRuns
    /\ check_state = NoState
    /\ exec_log = <<>>
    /\ batch = BatchIdle
    /\ sched = SchedIdle
    /\ retry = RetryIdle
    /\ llm = LlmIdle
    /\ notify = NotifyIdle
    /\ db = DbIdle
    /\ runner \in RunnerCalls

Returned(call, r) ==
    [call EXCEPT !.pc = IF r.kind = "return" THEN "returned" ELSE "raised",
                 !.result = r]

RunCommandCall ==
    /\ runner.pc = "call" /\ runner.fn = "run_command"
    /\ runner' = Returned(runner, run_command(runner.check.command,
                                              runner.check.timeout, runner.outcome))
    /\ UNCHANGED <<now, checks, check_runs, check_state, exec_log, batch, sched, retry, llm, notify, db>>

RunCheckCall ==
    /\ runner.pc = "call" /\ runner.fn = "run_check"
    /\ runner' = Returned(runner, run_check_call(runner.check, now, runner.outcome))
    /\ UNCHANGED <<now, checks, check_runs, check_state, exec_log, batch, sched, retry, llm, notify, db>>

TruncateOutputCall ==
    /\ runner.pc = "call" /\ runner.fn = "truncate_output"
    /\ runner' = Returned(runner, Return(truncate_output(runner.output,
                                                         runner.max_chars)))
    /\ UNCHANGED <<now, checks, check_runs, check_state, exec_log, batch, sched, retry, llm, notify, db>>

NextRunner ==
    \/ RunCommandCall
    \/ RunCheckCall
    \/ TruncateOutputCall

SpecRunner == InitRunner /\ [][NextRunner]_vars

\* "[Command timed out after Ns]"
TimedOutText(timeout) == Tail(TimeoutMarker(timeout))

EndsWith(str, suffix) ==
    /\ Len(suffix) <= Len(str)
    /\ SubSeq(str, Len(str) - Len(suffix) + 1, Len(str)) = suffix

TimedOut(call) == call.outcome.kind \in {"timeout", "timeout_bad_bytes"}

\* C24: when a command exceeds its timeout, run_command does not raise: it
\* returns exit code -1, an output that ends with the marker
\* "[Command timed out after Ns]" appended to the partial output, and a duration;
\* run_check then yields a run with status error, and in general the initial
\* status of run_check is ok iff the exit code is 0.
C24_TimeoutIsReportedNotRaised ==
    /\ (runner.pc \notin {"idle", "call"} /\ runner.fn = "run_command"
            /\ TimedOut(runner)) =>
          /\ runner.pc = "returned"
          /\ runner.result.value.exit_code = -1
          /\ runner.result.value.duration_ms >= 0
          /\ EndsWith(runner.result.value.output,
                      TimedOutText(runner.check.timeout))
          /\ runner.result.value.output =
                Strip(runner.outcome.stdout \o TimeoutMarker(runner.check.timeout))
    /\ (runner.pc \notin {"idle", "call"} /\ runner.fn = "run_check") =>
          /\ runner.pc = "returned"
          /\ TimedOut(runner) => runner.result.value.status = "error"
          /\ runner.result.value.status = "ok"
                <=> runner.result.value.command_exit_code = 0

\* C25: truncate_output(s, m) returns s when len(s) <= m; when len(s) > m, for
\* every m >= 0, the result is the first m // 2 characters of s, one marker and
\* the last m // 2 characters of s, so that its length is at most m plus the
\* length of the marker.
C25_TruncateKeepsBothEnds ==
    (runner.pc = "returned" /\ runner.fn = "truncate_output") =>
        LET s == runner.output
            m == runner.max_chars
            keep == m \div 2
            marker == TruncationMarker(Len(s) - m)
            result == runner.result.value
        IN  IF Len(s) <= m THEN result = s
            ELSE /\ result = SubSeq(s, 1, keep) \o marker
                                \o SubSeq(s, Len(s) - keep + 1, Len(s))
                 /\ Len(result) <= m + Len(marker)

----------------------------------------------------------------------------
(* db.py called directly: save_run, get_runs, get_latest_run, update_state. *)

MaxWrites == 3
MaxLimit == 3

\* the runs and the states the store is written with
StoreRuns ==
    {[CheckRun(name, t, <<"o">>, 0, 1, status) EXCEPT !.alert_sent = sent] :
        <<name, t, status, sent>> \in {<<"disk", 1, "ok", FALSE>>,
                                       <<"disk", 2, "alert", TRUE>>,
                                       <<"raid", 2, "ok", FALSE>>}}

StoreStates ==
    {CheckState("disk", Some(1), Some("ok"), Some("h")),
     CheckState("disk", Some(2), None, None),
     CheckState("raid", Some(1), Some("alert"), Some("h"))}

StoreCall(fn, check_name, status, since, limit, state, result, updates) ==
    [pc |-> "returned", fn |-> fn, check_name |-> check_name, status |-> status,
     since |-> since, limit |-> limit, state |-> state, result |-> result,
     updates |-> updates]

InitStore ==
    /\ now = 0
    /\ checks = LoadedChecks
    /\ check_runs = NoRuns
    /\ check_state = NoState
    /\ exec_log = <<>>
    /\ batch = BatchIdle
    /\ sched = SchedIdle
    /\ retry = RetryIdle
    /\ llm = LlmIdle
    /\ notify = NotifyIdle
    /\ db = [StoreCall("none", None, None, None, 0, None, None, <<>>)
                EXCEPT !.pc = "idle"]
    /\ runner = RunnerIdle

SaveRunCall ==
    /\ Len(check_runs) + Len(db.updates) < MaxWrites
    /\ \E run \in StoreRuns :
          /\ check_runs' = save_run(check_runs, run)
          /\ db' = StoreCall("save_run", Some(run.check_name), None, None, 0, None,
                             check_runs'[Len(check_runs')].id, db.updates)
    /\ UNCHANGED <<now, checks, check_state, exec_log, batch, sched, retry, llm, notify, runner>>

GetRunsCall ==
    /\ \E check_name \in {None, Some("disk"), Some("raid")},
          status \in {None, Some("alert")}, since \in {None, Some(2)},
          limit \in 0..MaxLimit :
          \E result \in get_runs(check_runs, check_name, status, since, limit) :
             db' = StoreCall("get_runs", check_name, status, since, limit, None,
                             Some(result), db.updates)
    /\ UNCHANGED <<now, checks, check_runs, check_state, exec_log, batch, sched, retry, llm, notify, runner>>

GetLatestRunCall ==
    /\ \E check_name \in {"disk", "raid"} :
          \E result \in get_latest_run(check_runs, check_name) :
             db' = StoreCall("get_latest_run", Some(check_name), None, None, 1, None,
                             result, db.updates)
    /\ UNCHANGED <<now, checks, check_runs, check_state, exec_log, batch, sched, retry, llm, notify, runner>>

UpdateStateCall ==
    /\ Len(check_runs) + Len(db.updates) < MaxWrites
    /\ \E state \in StoreStates :
          /\ check_state' = update_state(check_state, state)
          /\ db' = StoreCall("update_state", Some(state.check_name), None, None, 0,
                             Some(state), None, Append(db.updates, state))
    /\ UNCHANGED <<now, checks, check_runs, exec_log, batch, sched, retry, llm, notify, runner>>

NextStore ==
    \/ SaveRunCall
    \/ GetRunsCall
    \/ GetLatestRunCall
    \/ UpdateStateCall

SpecStore == InitStore /\ [][NextStore]_vars

\* the stored runs of a check, as get_runs returns them
RunsOf(check_name) ==
    {row_to_run(check_runs[i]) :
        i \in {j \in DOMAIN check_runs : check_runs[j].check_name = check_name}}

\* C26: after saving N runs for a check, get_runs(check_name, limit=N) returns
\* exactly those N runs; in general get_runs returns at most `limit` runs, each
\* a stored run matching the given name, status and since filters, ordered by
\* run_at descending; get_latest_run returns a run with the greatest run_at of
\* the check, or none when the check has no runs.
C26_GetRunsFiltersOrdersLimits ==
    /\ (db.pc = "returned" /\ db.fn = "get_runs") =>
          LET result == Get(db.result)
          IN  /\ Len(result) <= db.limit
              /\ \A k \in DOMAIN result :
                    /\ \E i \in DOMAIN check_runs : row_to_run(check_runs[i]) = result[k]
                    /\ ~IsNone(db.check_name) => result[k].check_name = Get(db.check_name)
                    /\ ~IsNone(db.status) => result[k].status = Get(db.status)
                    /\ ~IsNone(db.since) => result[k].run_at >= Get(db.since)
              /\ \A j, k \in DOMAIN result : j < k =>
                    /\ result[j].run_at >= result[k].run_at
                    /\ result[j].id # result[k].id
              /\ (/\ ~IsNone(db.check_name) /\ IsNone(db.status) /\ IsNone(db.since)
                  /\ db.limit = Cardinality(RunsOf(Get(db.check_name)))) =>
                    {result[k] : k \in DOMAIN result} = RunsOf(Get(db.check_name))
    /\ (db.pc = "returned" /\ db.fn = "get_latest_run") =>
          IF RunsOf(Get(db.check_name)) = {} THEN IsNone(db.result)
          ELSE /\ ~IsNone(db.result)
               /\ Get(db.result) \in RunsOf(Get(db.check_name))
               /\ \A r \in RunsOf(Get(db.check_name)) : r.run_at <= Get(db.result).run_at

\* three runs of one check, two of them of the same instant and one saved after
\* a later one, are returned by get_runs(check_name, limit=3), newest first
C26_Witness ==
    /\ db.pc = "returned" /\ db.fn = "get_runs"
    /\ db.check_name = Some("disk") /\ IsNone(db.status) /\ IsNone(db.since)
    /\ db.limit = 3
    /\ Len(check_runs) = 3
    /\ check_runs[1].run_at = 2 /\ check_runs[2].run_at = 1
    /\ Len(Get(db.result)) = 3
    /\ Get(db.result)[3].run_at = 1
    /\ Get(db.result)[1].alert_sent = TRUE

\* the state written last for a check by update_state, if any
RECURSIVE LastWritten(_, _)
LastWritten(updates, check_name) ==
    IF updates = <<>> THEN None
    ELSE IF updates[Len(updates)].check_name = check_name
    THEN Some(updates[Len(updates)])
    ELSE LastWritten(SubSeq(updates, 1, Len(updates) - 1), check_name)

\* C27: after any sequence of update_state calls the state table holds, for each
\* check name, no row if no state was written for it and otherwise the one row
\* that equals the last state written for the name as a whole (a field the later
\* call leaves null, such as config_hash, is null); rows of other names are
\* those of their own last write.
C27_StateRowIsLastWrite ==
    db.pc # "call" =>
        \A name \in DOMAIN check_state :
            check_state[name] = LastWritten(db.updates, name)

\* a row with a config_hash is overwritten by a state that leaves it null,
\* next to the row of another check
C27_Witness ==
    /\ db.pc = "returned" /\ db.fn = "update_state"
    /\ Len(db.updates) = 3
    /\ db.updates[1].check_name = "raid"
    /\ db.updates[2] = CheckState("disk", Some(1), Some("ok"), Some("h"))
    /\ db.updates[3] = CheckState("disk", Some(2), None, None)
    /\ check_state["disk"] = Some(db.updates[3])
    /\ check_state["raid"] = Some(db.updates[1])

----------------------------------------------------------------------------
(* The loop of `run`: order of the writes and of the checks, persisted rows. *)

----------------------------------------------------------------------------
(* `run` as written: checks without classifier, and --dry-run. *)

\* C31: for a check whose LLM classification is disabled the status is derived
\* from the exit code alone and no model call is made: exit code 0 gives ok, any
\* other exit code gives alert with the command output, or "Check failed
\* (exit N)" for an empty output, as alert_message; the run is persisted and the
\* batch completes normally.
C31_DisabledLlmUsesExitCode ==
    (batch.pc = "idle" /\ exec_log # <<>>) =>
        /\ batch.exit \notin {"AttributeError"}
        /\ \A k \in DOMAIN exec_log :
              \E i \in DOMAIN check_runs :
                 LET run == row_to_run(check_runs[i])
                 IN  /\ run.check_name = exec_log[k].check
                     /\ run.run_at = exec_log[k].at
                     /\ IsNone(run.llm_model)
                     /\ run = [exit_code_status(run) EXCEPT !.alert_sent = run.alert_sent]

\* the checks an invocation with these options would find due
WouldRun(opts) ==
    DueChecksOf(IF IsNone(opts.check_name) THEN checks
                ELSE FilterByName(checks, opts), opts)

\* C32: with --dry-run the batch only lists the checks it would run: no command
\* is executed, no model or notification request is made and the store is
\* unchanged, so a following schedule-driven invocation finds the same checks
\* due.
C32_DryRunChangesNothing ==
    [][/\ (batch.pc = "idle" /\ batch'.pc = "loop") => ~Get(batch'.opts).dry_run
       /\ exec_log' # exec_log => ~Get(batch.opts).dry_run
       /\ (batch.pc = "idle" /\ batch'.n # batch.n /\ batch'.exit = "dry_run") =>
             /\ UNCHANGED <<check_runs, check_state, exec_log, llm, notify, now>>
             /\ batch'.pc = "idle"
             /\ \E opts \in RunOptions :
                   opts.dry_run /\ batch'.due_checks = WouldRun(opts)
             /\ \A opts \in RunOptions : WouldRun(opts)' = WouldRun(opts)
      ]_vars

\* a dry run has listed two due checks and ended
C32_Witness ==
    /\ batch.pc = "idle"
    /\ batch.exit = "dry_run"
    /\ Len(batch.due_checks) = 2
    /\ exec_log = <<>>
    /\ check_runs = NoRuns
    /\ check_state = NoState

----------------------------------------------------------------------------
(* _parse_llm_status: the all-clear phrase rule. *)

\* a response the all-clear rule is reached with: no line carries a recognised
\* status marker, the single-word OK rule does not match, and an all-clear
\* phrase occurs
C33_ReachesAllClearRule(text) ==
    /\ \A i \in DOMAIN SplitLines(text) : ~C13_Recognised(SplitLines(text)[i])
    /\ ~C13_SingleWordOk(text)
    /\ \E phrase \in ok_phrases : Contains(Lower(text), phrase)

\* C33: for a response without recognised status marker, not matched by the
\* single-word OK rule, that contains an all-clear phrase, the result is OK
\* unless the first word is exactly "alert"; a first word that merely contains
\* "alert" does not block the OK result.
C33_OnlyExactAlertBlocksAllClear ==
    (Parsed /\ C33_ReachesAllClearRule(Strip(llm.response))) =>
        (llm.result.status = "ok"
            <=> FirstWord(Lower(Strip(llm.response))) # AlertWord)

\* C33, as the code has it: such a response is OK unless its first word contains
\* "alert" ("alert", "alert:", "alerts", ...); then it is an ALERT with the
\* whole stripped response as message.
C33_AlertInFirstWordBlocksAllClear ==
    (Parsed /\ C33_ReachesAllClearRule(Strip(llm.response))) =>
        llm.result =
            IF Contains(FirstWord(Lower(Strip(llm.response))), AlertWord)
            THEN ParsedAlert(Strip(llm.response))
            ELSE ParsedOk

\* "alerts: everything is fine" is an ALERT
C33_Witness ==
    /\ Parsed
    /\ llm.response =
          <<"a", "l", "e", "r", "t", "s", ":", " ", "e", "v", "e", "r", "y",
            "t", "h", "i", "n", "g", " ", "i", "s", " ", "f", "i", "n", "e">>
    /\ C33_ReachesAllClearRule(Strip(llm.response))
    /\ llm.result.status = "alert"

----------------------------------------------------------------------------
(* truncate_output: the number stated in the marker. *)

\* C34: when truncate_output shortens an input, the number stated in its marker
\* equals the number of characters of the input that were omitted (the length
\* of the input minus the characters kept in the prefix and in the suffix), for
\* every max_chars, odd or even.
C34_MarkerStatesOmittedCount ==
    (runner.pc = "returned" /\ runner.fn = "truncate_output"
        /\ Len(runner.output) > runner.max_chars) =>
        \E p, q \in 0..Len(runner.output) :
            /\ p + q <= Len(runner.output)
            /\ runner.result.value =
                  SubSeq(runner.output, 1, p)
                  \o TruncationMarker(Len(runner.output) - p - q)
                  \o SubSeq(runner.output, Len(runner.output) - q + 1,
                            Len(runner.output))

----------------------------------------------------------------------------
(* The loop of `run`: the order of the steps of one check. *)

\* the steps of one check, in the order of cli.py 137-214
StepOrder ==
    {<<"loop", "executed">>, <<"executed", "classified">>,
     <<"classified", "notified">>, <<"notified", "saved">>, <<"saved", "loop">>}

----------------------------------------------------------------------------
(* The loop of `run` over a store that holds earlier runs: the history. *)

\* an output longer than the budget of a history entry
LongOutput == [i \in 1..(HistoryBudget + 1) |-> IF i = 1 THEN "a" ELSE "z"]

\* the runs of earlier invocations: four of disk, one of raid
RECURSIVE SavedAll(_, _)
SavedAll(runs, new) ==
    IF new = <<>> THEN runs ELSE SavedAll(save_run(runs, new[1]), Tail(new))

EarlierRuns ==
    SavedAll(NoRuns,
        <<[CheckRun("disk", 0, <<"o", "k">>, 0, 1, "ok") EXCEPT
              !.llm_response = Some(TextOk)],
          [CheckRun("disk", 1, <<>>, 0, 1, "alert") EXCEPT
              !.llm_response = Some(TextAlert), !.alert_message = Some(TextAlert),
              !.alert_sent = TRUE],
          CheckRun("raid", 2, <<"r">>, 0, 1, "ok"),
          [CheckRun("disk", 2, LongOutput, 0, 1, "alert") EXCEPT
              !.llm_response = Some(TextAlert), !.alert_message = Some(TextAlert)],
          CheckRun("disk", 1, <<"n", "o">>, 1, 1, "alert")>>)

EarlierState ==
    update_state(update_state(NoState,
                              CheckState("disk", Some(2), Some("alert"), None)),
                 CheckState("raid", Some(2), Some("ok"), None))

\* the checks of the loop: with and without classifier, with every setting of
\* history_context
HistoryChecks ==
    {[WithUseLlm(LlmCheck(None, t, None, FALSE), flag) EXCEPT
         !.llm.history_context = n] :
        flag \in BOOLEAN, t \in {None, Some("tiny")},
        n \in {None, Some(0), Some(1), Some(2)}}

\* `run` at line 133, with earlier runs in the store
InitHistory ==
    /\ now = 3
    /\ \E check \in HistoryChecks, no_notify \in BOOLEAN, flag \in BOOLEAN :
          /\ checks = <<check>>
          /\ batch = [pc |-> "loop", n |-> 1,
                      opts |-> Some([run_all |-> TRUE, force |-> FALSE,
                                     dry_run |-> FALSE, no_notify |-> no_notify,
                                     check_name |-> None]),
                      due_checks |-> <<check>>, idx |-> 1, check_run |-> None,
                      started |-> <<>>, exit |-> "none",
                      config |-> Config(flag, None)]
    /\ check_runs = EarlierRuns
    /\ check_state = EarlierState
    /\ exec_log = <<>>
    /\ sched = SchedIdle
    /\ retry = RetryIdle
    /\ llm = LlmIdle
    /\ notify = NotifyIdle
    /\ db = DbIdle
    /\ runner = RunnerIdle

SpecHistory == InitHistory /\ [][NextBody]_vars

\* the stored runs of the current check that were saved before the current run
SavedBefore ==
    {row_to_run(check_runs[i]) :
        i \in {j \in DOMAIN check_runs :
                 /\ check_runs[j].check_name = current_check(batch).name
                 /\ (batch.pc = "saved" => j < Len(check_runs))}}

----------------------------------------------------------------------------
(* Termination of an invocation.  Every statement of the loop runs to its   *)
(* end once started: subprocess.run returns or raises within the timeout of *)
(* the check, an HTTP request returns or raises within the timeout of its   *)
(* client, time.sleep returns.  The process may still be killed.            *)

\* the statements of the loop
BodySteps ==
    \/ \E outcome \in BodyOutcomes : RunCheckStep(outcome)
    \/ ClassifyStep
    \/ NotifyStep
    \/ SaveRunStep
    \/ UpdateStateStep

\* The classification is enabled exactly at pc "executed" (every check of the
\* loop has the field, and the sets its replies and history are drawn from
\* are never empty), so its weak fairness is written with that guard in the
\* place of ENABLED.
ClassifyFair == []<>(batch.pc # "executed") \/ []<><<ClassifyStep>>_vars

FairBody ==
    /\ SpecBody
    /\ WF_vars(\E outcome \in BodyOutcomes : RunCheckStep(outcome))
    /\ ClassifyFair
    /\ WF_vars(NotifyStep)
    /\ WF_vars(SaveRunStep)
    /\ WF_vars(UpdateStateStep)

\* retry_on_error as generate and send call it, over the requests of `script`
Requests(func, script) ==
    RetryRun(RetryCall(func, script, DefaultMaxRetries, ClientDelay, DefaultBackoff,
                       {IF func = "generate" THEN "LLMError" ELSE "NotifyError"}))

RECURSIVE Sum(_)
Sum(seq) == IF seq = <<>> THEN 0 ELSE Head(seq) + Sum(Tail(seq))

\* the longest time retry_on_error sleeps: delay, delay * backoff, ...
MaxSleep == ClientDelay + ClientDelay * DefaultBackoff

\* the generate calls made for the current check
GenerateCalls == IF llm.pc = "idle" THEN <<>> ELSE llm.calls

\* what the classifier and the notifier did for the current check stays
\* within their bounds
C37_Bounded ==
    /\ Len(GenerateCalls) <= 2
    /\ \A i \in DOMAIN GenerateCalls :
          LET rt == Requests("generate", GenerateCalls[i].reply.script)
          IN  /\ rt.pc \in {"returned", "raised"}
              /\ rt.calls \in 1..DefaultMaxRetries
              /\ Len(rt.sleeps) < DefaultMaxRetries
              /\ Sum(rt.sleeps) <= MaxSleep
    /\ notify.pc = "returned" =>
          LET rt == Requests("send", notify.script)
          IN  /\ notify.requests = rt.calls
              /\ rt.pc \in {"returned", "raised"}
              /\ rt.calls \in 1..DefaultMaxRetries
              /\ Len(rt.sleeps) < DefaultMaxRetries
              /\ Sum(rt.sleeps) <= MaxSleep
    /\ batch.idx <= Len(batch.due_checks) + 1
    /\ Len(exec_log) <= Len(batch.due_checks)

\* a notification is sent only by the one notification step of a check
C37_OneSend ==
    (notify' # notify /\ notify'.pc = "returned") =>
        /\ batch.pc = "classified"
        /\ batch'.pc = "notified"
        /\ batch'.idx = batch.idx

----------------------------------------------------------------------------
(* Two-stage classification in the loop: what is stored and notified once   *)
(* the triage call has answered not-OK.                                     *)

\* the current check is classified in two stages and its triage call
\* returned a response that is not OK
TriageNotOk ==
    /\ batch.pc \in {"classified", "notified", "saved"}
    /\ llm.pc = "returned"
    /\ llm.call = "analyze_output"
    /\ ~IsNone(current_check(batch).llm.triage_model)
    /\ Len(llm.calls) >= 1
    /\ generate(llm.calls[1].reply).kind = "return"
    /\ ~triage_is_ok(generate(llm.calls[1].reply).value)

\* the analysis call was made and failed after its retries
AnalysisFailed ==
    /\ Len(llm.calls) = 2
    /\ generate(llm.calls[2].reply).kind = "raise"

----------------------------------------------------------------------------
(* Two `run` processes at once: cron starts `ampelmann run` while an        *)
(* earlier one is still in its loop.  Each process has its own connection   *)
(* (db.py 71-86: one sqlite3.connect per call, committed at its end); no    *)
(* lock is taken between the reading of the states (cli.py 112-116) and the *)
(* writing of a run and its state (cli.py 208-214).  `batch` holds one      *)
(* record per process.  The checks carry the field use_llm, set to false.   *)

Procs == {1, 2}

\* the clock of the two processes stops advancing here
MaxOverlapClock == 2

OverlapChecks ==
    <<WithUseLlm(Check("disk", TRUE, "*/10 * * * *"), FALSE),
      WithUseLlm(Check("raid", TRUE, "0 * * * *"), FALSE)>>

\* `ampelmann run` without options
ScheduleOpts ==
    [run_all |-> FALSE, force |-> FALSE, dry_run |-> FALSE, no_notify |-> FALSE,
     check_name |-> None]

OverlapOutcomes ==
    {[kind |-> "exit", code |-> 0, stdout |-> <<"o", "k">>],
     [kind |-> "exit", code |-> 1, stdout |-> <<"n", "o">>]}

InitOverlap ==
    /\ now = 0
    /\ checks = OverlapChecks
    /\ check_runs = NoRuns
    /\ check_state = NoState
    /\ exec_log = <<>>
    /\ batch = [p \in Procs |-> BatchIdle]
    /\ sched = SchedIdle
    /\ retry = RetryIdle
    /\ llm = LlmIdle
    /\ notify = NotifyIdle
    /\ db = DbIdle
    /\ runner = RunnerIdle

\* cli.py 86-131 in process p: the states are read and the due checks chosen
OverlapStart(p) ==
    /\ batch[p].pc = "idle"
    /\ batch[p].n = 0
    /\ LET due == DueChecksOf(checks, ScheduleOpts)
       IN  batch' =
             [batch EXCEPT ![p] =
                 IF due = <<>> THEN [BatchIdle EXCEPT !.n = 1, !.exit = "none_due"]
                 ELSE [pc |-> "loop", n |-> 1, opts |-> Some(ScheduleOpts),
                       due_checks |-> due, idx |-> 1, check_run |-> None,
                       started |-> <<>>, exit |-> "none"]]
    /\ UNCHANGED <<now, checks, check_runs, check_state, exec_log, sched, retry, llm, notify, db, runner>>

\* cli.py 133-151 in process p
OverlapRunCheck(p, outcome) ==
    /\ batch[p].pc = "loop"
    /\ LET check == current_check(batch[p])
           r == run_check(check, now, outcome)
       IN  /\ exec_log' = Append(exec_log, [check |-> check.name, at |-> now,
                                            scheduled |-> TRUE])
           /\ batch' =
                 [batch EXCEPT
                     ![p].pc = "executed",
                     ![p].started = Append(batch[p].started, check.name),
                     ![p].check_run =
                         Some([r EXCEPT !.command_output =
                                   truncate_output(r.command_output, 50000)])]
    /\ UNCHANGED <<now, checks, check_runs, check_state, sched, retry, llm, notify, db, runner>>

\* cli.py 153-206 in process p, for a check without classifier
OverlapClassifyNotify(p) ==
    /\ batch[p].pc = "executed"
    /\ LET check == current_check(batch[p])
           run == exit_code_status(Get(batch[p].check_run))
       IN  IF wants_alert(run, FALSE)
           THEN \E script \in {Always("2xx"), Always("5xx")} :
                   LET r == send_alert(run, check.notify.tags, check.notify.priority,
                                       script, DefaultMaxRetries)
                   IN  /\ notify' =
                            [pc |-> "returned", run |-> run,
                             tags |-> check.notify.tags,
                             priority |-> check.notify.priority, script |-> script,
                             max_retries |-> DefaultMaxRetries,
                             requests |-> send(script, DefaultMaxRetries).calls,
                             request |-> Some(AlertRequest(run, check.notify.tags,
                                                           check.notify.priority)),
                             result |-> r]
                       /\ batch' = [batch EXCEPT
                                       ![p].pc = "notified",
                                       ![p].check_run =
                                           Some(alert_recorded(run, r.value))]
           ELSE /\ notify' = notify
                /\ batch' = [batch EXCEPT ![p].pc = "notified",
                                          ![p].check_run = Some(run)]
    /\ UNCHANGED <<now, checks, check_runs, check_state, exec_log, sched, retry, llm, db, runner>>

\* cli.py 209 in process p
OverlapSaveRun(p) ==
    /\ batch[p].pc = "notified"
    /\ check_runs' = save_run(check_runs, Get(batch[p].check_run))
    /\ batch' = [batch EXCEPT ![p].pc = "saved"]
    /\ UNCHANGED <<now, checks, check_state, exec_log, sched, retry, llm, notify, db, runner>>

\* cli.py 210-216 in process p
OverlapUpdateState(p) ==
    /\ batch[p].pc = "saved"
    /\ LET run == Get(batch[p].check_run)
       IN  check_state' =
              update_state(check_state,
                           CheckState(current_check(batch[p]).name,
                                      Some(run.run_at), Some(run.status), None))
    /\ batch' =
          [batch EXCEPT ![p] =
              IF batch[p].idx = Len(batch[p].due_checks)
              THEN [batch[p] EXCEPT !.pc = "idle", !.opts = None,
                                    !.check_run = None, !.exit = "completed",
                                    !.idx = batch[p].idx + 1]
              ELSE [batch[p] EXCEPT !.pc = "loop", !.idx = batch[p].idx + 1,
                                    !.check_run = None]]
    /\ UNCHANGED <<now, checks, check_runs, exec_log, sched, retry, llm, notify, db, runner>>

\* time passes
OverlapTick ==
    /\ now < MaxOverlapClock
    /\ now' = now + 1
    /\ UNCHANGED <<checks, check_runs, check_state, exec_log, batch, sched, retry, llm, notify, db, runner>>

NextOverlap ==
    \/ \E p \in Procs : OverlapStart(p)
    \/ \E p \in Procs, outcome \in OverlapOutcomes : OverlapRunCheck(p, outcome)
    \/ \E p \in Procs : OverlapClassifyNotify(p)
    \/ \E p \in Procs : OverlapSaveRun(p)
    \/ \E p \in Procs : OverlapUpdateState(p)
    \/ OverlapTick

SpecOverlap == InitOverlap /\ [][NextOverlap]_vars

\* the schedule of the check called `name`
ScheduleOf(name) ==
    (CHOOSE c \in {checks[i] : i \in DOMAIN checks} : c.name = name).schedule

\* the scheduled instant a run at t belongs to
SlotOf(name, t) == PrevSlot(ScheduleOf(name), t)

----------------------------------------------------------------------------
(* Retention: completed invocations of `run` and calls of cleanup_old_runs  *)
(* (db.py 226-241, called by `ampelmann cleanup --days N`, cli.py 612-620). *)
(* A tick is a day here.  The checks carry the field use_llm, set to false. *)

\* the clock of the retention model stops advancing here
MaxRetainClock == 3
\* the largest --days given to cleanup
MaxRetainDays == 2

\* a cleanup that also deletes the runs made exactly at the cutoff
cleanup_old_runs_inclusive(runs, t, retain_days) ==
    LET cutoff == t - retain_days
        Kept(row) == row.run_at > cutoff
    IN  [runs |-> SelectSeq(runs, Kept),
         deleted |-> Len(runs) - Len(SelectSeq(runs, Kept))]

\* cleanup_old_runs at time t: DELETE FROM check_runs WHERE run_at < cutoff,
\* and the rowcount
cleanup_old_runs(runs, t, retain_days) ==
    LET cutoff == t - retain_days
        Kept(row) == ~(row.run_at < cutoff)
    IN  [runs |-> SelectSeq(runs, Kept),
         deleted |-> Len(runs) - Len(SelectSeq(runs, Kept))]

InitRetain ==
    /\ now = 0
    /\ checks = OverlapChecks
    /\ check_runs = NoRuns
    /\ check_state = NoState
    /\ exec_log = <<>>
    /\ batch = BatchIdle
    /\ sched = SchedIdle
    /\ retry = RetryIdle
    /\ llm = LlmIdle
    /\ notify = NotifyIdle
    /\ db = DbIdle
    /\ runner = RunnerIdle

\* an invocation of `run` with one due check, from its start to its end
\* (cli.py 86-216): the command, the status by exit code, the notification,
\* the run and the state.  Two invocations do not start at the same instant.
CompletedRun ==
    /\ \E i \in DOMAIN checks, outcome \in OverlapOutcomes, sent \in BOOLEAN :
          LET check == checks[i]
              run == exit_code_status(run_check(check, now, outcome))
              final == IF wants_alert(run, FALSE) THEN alert_recorded(run, sent)
                       ELSE run
          IN  /\ \A k \in DOMAIN check_runs : check_runs[k].run_at < now
              /\ wants_alert(run, FALSE) \/ ~sent
              /\ check_runs' = save_run(check_runs, final)
              /\ check_state' =
                    update_state(check_state,
                                 CheckState(check.name, Some(final.run_at),
                                            Some(final.status), None))
              /\ exec_log' = Append(exec_log, [check |-> check.name, at |-> now,
                                               scheduled |-> TRUE])
    /\ db' = [pc |-> "returned", call |-> "run"]
    /\ UNCHANGED <<now, checks, batch, sched, retry, llm, notify, runner>>

\* `ampelmann cleanup --days N`
CleanupCall ==
    /\ \E retain_days \in 0..MaxRetainDays :
          LET r == cleanup_old_runs(check_runs, now, retain_days)
          IN  /\ check_runs' = r.runs
              /\ db' = [pc |-> "returned", call |-> "cleanup_old_runs",
                        retain_days |-> retain_days, cutoff |-> now - retain_days,
                        before |-> check_runs, result |-> r.deleted]
    /\ UNCHANGED <<now, checks, check_state, exec_log, batch, sched, retry, llm, notify, runner>>

\* a day passes
RetainTick ==
    /\ now < MaxRetainClock
    /\ now' = now + 1
    /\ UNCHANGED <<checks, check_runs, check_state, exec_log, batch, sched, retry, llm, notify, db, runner>>

NextRetain ==
    \/ CompletedRun
    \/ CleanupCall
    \/ RetainTick

SpecRetain == InitRetain /\ [][NextRetain]_vars

\* the checks that have a state row
WithState == {name \in DOMAIN check_state : ~IsNone(check_state[name])}

\* get_latest_run(name) returns the run the state row of `name` describes
LatestIsStateRun(name) ==
    \A latest \in get_latest_run(check_runs, name) :
        /\ ~IsNone(latest)
        /\ Some(Get(latest).run_at) = Get(check_state[name]).last_run_at
        /\ Some(Get(latest).status) = Get(check_state[name]).last_status

\* the last call was a cleanup, and it deleted exactly the runs older than its
\* cutoff, returned their number and left the others as they were
CleanupExact ==
    (db.pc = "returned" /\ db.call = "cleanup_old_runs") =>
        LET Older == {k \in DOMAIN db.before : db.before[k].run_at < db.cutoff}
            Newer(row) == row.run_at >= db.cutoff
        IN  /\ db.result = Cardinality(Older)
            /\ check_runs = SelectSeq(db.before, Newer)
            /\ \A k \in DOMAIN check_runs : check_runs[k].run_at >= db.cutoff

====
